---- MODULE Spec2Model ----
(***************************************************************************)
(* Verification model of the Platform Adaptation Layer of the FreeScout /   *)
(* Help Scout GPT assistant extension: the platform detector               *)
(* (src/platformDetection.js), the platform manager                        *)
(* (src/platformManager.js) and the reply injection of the two adapters    *)
(* (src/adapters/platformAdapter.js, src/adapters/helpscoutAdapter.js).    *)
(*                                                                         *)
(* The module holds several specifications over one set of variables:      *)
(*   SpecCombine  the pure vote combination of the detector                *)
(*   SpecInject   one injectReply call of an adapter, step by step         *)
(*   Spec         the manager: initialize / retry / reset / facade calls   *)
(*   SpecDetect   detectPlatform calls against the detector cache          *)
(*   SpecVotes    the three detection strategies on one page               *)
(*   SpecThread   FreeScoutAdapter.extractThread on one page               *)
(*   SpecCustomer extractCustomerInfo of either adapter on one page        *)
(*   SpecLife     one adapter instance on its page, from load to cleanup   *)
(*   SpecSafe     HTMLSanitizer.isSafe / sanitize calls on the shared       *)
(*                DANGEROUS_PATTERNS                                       *)
(*   SpecSanitize HTMLSanitizer.sanitize applied once and twice            *)
(*   SpecDocs     the background script's documentation cache              *)
(*   SpecRetry    PlatformDetector.detectWithRetry calls (with fairness)   *)
(* A specification leaves the variables of the other components at their   *)
(* idle values.                                                            *)
(***************************************************************************)
EXTENDS Integers, Sequences, FiniteSets, TLC

VARIABLES
  \* ---- detector vote combination (SpecCombine)
  cIn,          \* the four strategy results handed to combineDetectionStrategies
  cOut,         \* its return value, "pending" before the call
  \* ---- one adapter injectReply call (SpecInject)
  jAdapter,     \* which adapter class runs: "freescout" (base injectReply) or "helpscout"
  jEnv,         \* the page the call runs against (editor, host reactions)
  jPc,          \* position inside injectReply / injectIntoSlateEditor
  jEditor,      \* what getReplyEditor resolved to ("unset" before)
  jTried,       \* strategies of injectIntoSlateEditor attempted so far, in order
  jOutcome,     \* outcome of each attempted strategy, same indexing as jTried
  jSlateRet,    \* return value of injectIntoSlateEditor ("unset" before it returns)
  jDoc,         \* content held by the editor's document model / value
  jHtmlWrites,  \* values assigned to editor.innerHTML during the call, in order
  jRet,         \* return value of adapter.injectReply ("unset" before it returns)
  \* ---- the manager, the detector cache and the page (Spec)
  mgr,          \* PlatformManager fields
  det,          \* PlatformDetector static cache
  inv,          \* the _performInitialization invocations (one promise each)
  nInv,         \* number of invocations started
  microQ,       \* invocations whose continuation is queued as a microtask, FIFO
  calls,        \* calls made on the manager from outside, and their results
  nCalls,       \* number of such calls
  now,          \* Date.now(), in minutes
  detectorLoaded, \* whether window.PlatformDetector exists
  hist,         \* history: counts of constructions, cleanups, events, attempts
  \* ---- detectPlatform calls on a changing page (SpecDetect; uses det and now)
  dLog,         \* the last detectPlatform call: when, cache hit or strategy run, result
  dSince,       \* history: last strategy run and last return of a platform, clearCache since
  \* ---- the strategies of detectPlatform on one page (SpecVotes)
  vPage,        \* the page: what the URL, the document and the host globals look like
  vOut,         \* the three votes and the combined result (done: the run was made)
  \* ---- FreeScoutAdapter.extractThread on one page (SpecThread)
  tPage,        \* the .thread-item elements of the page, in document order
  tOut,         \* the returned messages (done: the call was made)
  \* ---- adapter.extractCustomerInfo on one page (SpecCustomer)
  ciPage,       \* the adapter and the customer data the page holds
  ciOut,        \* the returned bag (done: the call was made)
  \* ---- one adapter instance on its page (SpecLife)
  ad,           \* the adapter's fields
  host,         \* the page: its conversation, the observers and listeners it holds
  xOut,         \* the last extractThread(): which conversation it returned
  qOut,         \* the last querySelector() or clearCache() call on the adapter
  \* ---- HTMLSanitizer (SpecSafe, SpecSanitize)
  reLastIndex,  \* lastIndex of each regular expression of DANGEROUS_PATTERNS
  sRef,         \* history: one earlier isSafe call, its argument and result
  sCur,         \* the last call on the sanitizer: operation, argument, result
  zHtml,        \* the argument of sanitize
  zOut,         \* sanitize(zHtml) and sanitize(sanitize(zHtml)) (done: both were computed)
  \* ---- the documentation cache of the background script (SpecDocs)
  bg,           \* which script runs, chrome.storage.local, Date.now() in units of 12 hours
  rq,           \* the fetchDocsWithCache call: its position, what it read and returned
  cl,           \* the clearDocsCache call: its position and the keys it is about to remove
  \* ---- PlatformDetector.detectWithRetry (SpecRetry; uses det)
  rt,           \* the detectWithRetry call: its position, its attempts and its result
  \* ---- the shared utilities of PlatformAdapter (SpecTools)
  ut,           \* debounce timers, the error log, whether the element cache holds an entry
  \* ---- the mutation observer of an adapter on its page (SpecObserve; uses ad, host, xOut)
  ob,           \* history: the mutation batches delivered and the events emitted
  \* ---- HelpScoutAdapter.extractFromAppData (SpecAppData)
  ax            \* the conversation object the adapter holds and what the call returned

combineVars == <<cIn, cOut>>
injectVars  == <<jAdapter, jEnv, jPc, jEditor, jTried, jOutcome, jSlateRet, jDoc,
                 jHtmlWrites, jRet>>
managerVars == <<mgr, det, inv, nInv, microQ, calls, nCalls, now, detectorLoaded, hist>>
detectVars  == <<dLog, dSince, vPage, vOut>>
threadVars   == <<tPage, tOut>>
customerVars == <<ciPage, ciOut>>
lifeVars     == <<ad, host, xOut, qOut>>
safeVars     == <<reLastIndex, sRef, sCur>>
sanitizeVars == <<zHtml, zOut>>
docsVars     == <<bg, rq, cl>>
retryVars    == <<rt>>
toolVars     == <<ut>>
observeVars  == <<ob>>
appVars      == <<ax>>
helperVars   == <<toolVars, observeVars, appVars>>
utilVars     == <<safeVars, sanitizeVars, docsVars, retryVars, helperVars>>
coreVars     == <<threadVars, customerVars, lifeVars, combineVars, injectVars, managerVars,
                  detectVars>>
adapterVars == <<threadVars, customerVars, lifeVars, utilVars>>
vars == <<combineVars, injectVars, managerVars, detectVars, adapterVars>>

(***************************************************************************)
(* Platform identities.  JavaScript null is "none".                        *)
(***************************************************************************)
Platforms == {"freescout", "helpscout"}
Votes     == Platforms \cup {"none"}

\* JavaScript truthiness of a platform-or-null value.
Truthy(v) == v # "none"

(***************************************************************************)
(* PlatformDetector.combineDetectionStrategies                             *)
(***************************************************************************)
\* votes[p] after the four conditional increments of lines 234-244.
VoteWeight_NoApiBonus(p, urlDetection, domDetection, apiDetection) ==
  (IF urlDetection = p THEN 1 ELSE 0)
  + (IF domDetection = p THEN 1 ELSE 0)
  + (IF apiDetection = p THEN 1 ELSE 0)

VoteWeight(p, urlDetection, domDetection, apiDetection) ==
  (IF Truthy(urlDetection) /\ urlDetection = p THEN 1 ELSE 0)
  + (IF Truthy(domDetection) /\ domDetection = p THEN 1 ELSE 0)
  + (IF Truthy(apiDetection) /\ apiDetection = p THEN 1 ELSE 0)
  + (IF Truthy(apiDetection) /\ apiDetection = p THEN 1 ELSE 0)

combineDetectionStrategies_IgnoreOverride(urlDetection, domDetection, apiDetection, userOverride) ==
  LET hs == VoteWeight("helpscout", urlDetection, domDetection, apiDetection)
      fs == VoteWeight("freescout", urlDetection, domDetection, apiDetection)
  IN  IF hs > fs THEN "helpscout"
      ELSE IF fs > hs THEN "freescout"
      ELSE IF Truthy(userOverride) THEN userOverride
      ELSE "none"

combineDetectionStrategies(urlDetection, domDetection, apiDetection, userOverride) ==
  IF Truthy(userOverride) THEN userOverride
  ELSE LET hs == VoteWeight("helpscout", urlDetection, domDetection, apiDetection)
           fs == VoteWeight("freescout", urlDetection, domDetection, apiDetection)
       IN  IF hs > fs THEN "helpscout"
           ELSE IF fs > hs THEN "freescout"
           ELSE "none"

CombineInputs == [url : Votes, dom : Votes, api : Votes, override : Votes]

CombineIdle == cIn = [url |-> "none", dom |-> "none", api |-> "none", override |-> "none"]
               /\ cOut = "pending"

CombineInit == cIn \in CombineInputs /\ cOut = "pending"

\* One call of combineDetectionStrategies on the drawn inputs.
Combine ==
  /\ cOut = "pending"
  /\ cOut' = combineDetectionStrategies(cIn.url, cIn.dom, cIn.api, cIn.override)
  /\ UNCHANGED <<cIn, injectVars, managerVars, detectVars, adapterVars>>


(***************************************************************************)
(* Reply injection of one adapter call.                                    *)
(*                                                                         *)
(* Editors are identified by what the branch conditions of the code read:  *)
(*   "slate"     carries data-slate-editor (and is contentEditable)        *)
(*   "rich"      contentEditable === 'true' (or .note-editable), no Slate  *)
(*   "textarea"  a TEXTAREA / INPUT element                                *)
(*   "other"     any other element matched by an editor selector           *)
(*   "none"      getReplyEditor returned null                              *)
(* JavaScript values returned by the code are the strings "true", "false", *)
(* "undefined", "null", "[]" (and "unset" before a call has returned).     *)
(* The editor content jDoc is "orig" (earlier content), "sameText" (earlier *)
(* content whose text equals the reply), "cleared", or "reply" (the reply   *)
(* as put there by this call).                                             *)
(***************************************************************************)
EditorKinds == {"slate", "rich", "textarea", "other"}

HasSlateAttr(e)      == e = "slate"
IsContentEditable(e) == e \in {"slate", "rich"}
IsTextField(e)       == e = "textarea"

\* Editors the FreeScout selectors (.note-editable, textarea#body, .reply-editor,
\* [name="body"]) can resolve to, and those of the Help Scout selectors.
FreeScoutEditors == {"rich", "textarea", "other", "none"}
HelpScoutEditors == EditorKinds \cup {"none"}

\* Branch taken by HelpScoutAdapter.injectReply for a resolved editor.
HsEditorBranch_ContentEditableFirst(e) ==
  IF IsContentEditable(e) THEN "rich"
  ELSE IF HasSlateAttr(e) THEN "slate"
  ELSE IF IsTextField(e) THEN "plain"
  ELSE "unhandled"

HsEditorBranch(e) ==
  IF HasSlateAttr(e) THEN "slate"
  ELSE IF IsContentEditable(e) THEN "rich"
  ELSE IF IsTextField(e) THEN "plain"
  ELSE "unhandled"

\* Branch taken by the base PlatformAdapter.injectReply.
BaseEditorBranch(e) ==
  IF e = "none" THEN "throw"
  ELSE IF IsContentEditable(e) THEN "rich"
  ELSE IF IsTextField(e) THEN "plain"
  ELSE "throw"

InjectIdle ==
  /\ jAdapter = "freescout" /\ jEnv = "idle" /\ jPc = "idle" /\ jEditor = "unset"
  /\ jTried = <<>> /\ jOutcome = <<>> /\ jSlateRet = "unset" /\ jDoc = "orig"
  /\ jHtmlWrites = <<>> /\ jRet = "unset"

\* jEnv: whether the Reply button of the Help Scout page is present and enabled.
\* jDoc: the editor holds earlier content, or already the text being injected.
InjectInit ==
  /\ jAdapter \in Platforms
  /\ jEnv \in {"replyButton", "noReplyButton"}
  /\ jPc = "start" /\ jEditor = "unset"
  /\ jTried = <<>> /\ jOutcome = <<>> /\ jSlateRet = "unset" /\ jDoc \in {"orig", "sameText"}
  /\ jHtmlWrites = <<>> /\ jRet = "unset"

\* PlatformAdapter.injectReply, inherited by FreeScoutAdapter: synchronous, every
\* failure is caught and logged, and no path has a return statement.
BaseInjectReply ==
  /\ jAdapter = "freescout" /\ jPc = "start"
  /\ \E e \in FreeScoutEditors :
       /\ jEditor' = e
       /\ CASE BaseEditorBranch(e) = "rich" ->
                 jDoc' = "reply" /\ jHtmlWrites' = Append(jHtmlWrites, "reply")
            [] BaseEditorBranch(e) = "plain" ->
                 jDoc' = "reply" /\ UNCHANGED jHtmlWrites
            [] OTHER -> UNCHANGED <<jDoc, jHtmlWrites>>
  /\ jRet' = "undefined"
  /\ jPc' = "done"
  /\ UNCHANGED <<jAdapter, jEnv, jTried, jOutcome, jSlateRet, combineVars, managerVars, detectVars, adapterVars>>

\* HelpScoutAdapter.getReplyEditor up to its first suspension: the selector loop,
\* then the Reply button click, else the container fallback.
HsGetReplyEditor ==
  /\ jAdapter = "helpscout" /\ jPc = "start"
  /\ \/ \E e \in EditorKinds : jEditor' = e /\ jPc' = "branch"
     \/ jEnv = "replyButton" /\ jPc' = "clicked" /\ UNCHANGED jEditor
     \/ jEnv = "noReplyButton" /\ jPc' = "branch"
        /\ \E e \in {"slate", "rich", "none"} : jEditor' = e
  /\ UNCHANGED <<jAdapter, jEnv, jTried, jOutcome, jSlateRet, jDoc, jHtmlWrites, jRet,
                 combineVars, managerVars, detectVars, adapterVars>>

\* ... after the 800 ms wait: the selector loop again, else the container fallback
\* (a [contenteditable="true"] element of the container, or null).
HsGetReplyEditorAfterClick ==
  /\ jPc = "clicked"
  /\ \E e \in HelpScoutEditors : jEditor' = e
  /\ jPc' = "branch"
  /\ UNCHANGED <<jAdapter, jEnv, jTried, jOutcome, jSlateRet, jDoc, jHtmlWrites, jRet,
                 combineVars, managerVars, detectVars, adapterVars>>


\* editor.textContent of a content.
TextOf(doc) == IF doc \in {"sameText", "reply"} THEN "replyText" ELSE doc

\* Strategy numbers of injectIntoSlateEditor, in source order.
StrategyApi   == 1
StrategyPaste == 2
StrategyInput == 3

\* Where injectIntoSlateEditor continues after the paste check of lines 606-614:
\* the paste strategy returns true only when the text content changed and holds
\* the start of the reply.
AfterPaste_FallThrough(changed, includesReply) == "slateInput"

AfterPaste(changed, includesReply) ==
  IF changed /\ includesReply THEN "return" ELSE "slateInput"

\* HelpScoutAdapter.injectReply once the editor is resolved: the no-editor return
\* and the three non-Slate branches run to the end; the Slate branch enters
\* injectIntoSlateEditor.
HsInjectBranch ==
  /\ jAdapter = "helpscout" /\ jPc = "branch"
  /\ IF jEditor = "none"
       THEN jRet' = "false" /\ jPc' = "done" /\ UNCHANGED <<jDoc, jHtmlWrites>>
       ELSE CASE HsEditorBranch(jEditor) = "slate" ->
                   jPc' = "slateApi" /\ UNCHANGED <<jRet, jDoc, jHtmlWrites>>
              [] HsEditorBranch(jEditor) = "rich" ->
                   /\ jHtmlWrites' = Append(jHtmlWrites, "reply")
                   /\ jDoc' = "reply" /\ jRet' = "true" /\ jPc' = "done"
              [] HsEditorBranch(jEditor) = "plain" ->
                   /\ jDoc' = "reply" /\ jRet' = "true" /\ jPc' = "done"
                   /\ UNCHANGED jHtmlWrites
              [] OTHER ->
                   jRet' = "true" /\ jPc' = "done" /\ UNCHANGED <<jDoc, jHtmlWrites>>
  /\ UNCHANGED <<jAdapter, jEnv, jEditor, jTried, jOutcome, jSlateRet, combineVars, managerVars, detectVars, adapterVars>>

\* Strategy 1 (lines 526-564): find the Slate controller through the React fiber
\* and call its API.  It is absent, works, or throws (before or after the old
\* content was deleted), which the outer catch turns into `return false`.
SlateApi ==
  /\ jPc = "slateApi"
  /\ jTried' = Append(jTried, StrategyApi)
  /\ \/ /\ jOutcome' = Append(jOutcome, "unavailable")
        /\ jPc' = "slatePaste"
        /\ UNCHANGED <<jDoc, jSlateRet>>
     \/ /\ jOutcome' = Append(jOutcome, "ok")
        /\ jDoc' = "reply" /\ jSlateRet' = "true" /\ jPc' = "slateReturned"
     \/ /\ jOutcome' = Append(jOutcome, "threw")
        /\ \E d \in {jDoc, "cleared"} : jDoc' = d
        /\ jSlateRet' = "false" /\ jPc' = "slateReturned"
  /\ UNCHANGED <<jAdapter, jEnv, jEditor, jHtmlWrites, jRet, combineVars, managerVars, detectVars, adapterVars>>

\* Strategy 2 (lines 566-617): focus, select all, dispatch a synthetic paste,
\* wait, compare textContent before and after.  The host inserts the reply,
\* changes the content some other way, or leaves it alone (`after` is the text
\* content read back); an exception is caught by the inner catch.
SlatePaste ==
  /\ jPc = "slatePaste"
  /\ jTried' = Append(jTried, StrategyPaste)
  /\ \/ \E after \in {"reply", "cleared", jDoc} :
          LET changed  == TextOf(after) # TextOf(jDoc)
              includes == TextOf(after) = "replyText"
          IN  /\ jDoc' = after
              /\ jOutcome' = Append(jOutcome, IF changed /\ includes THEN "ok" ELSE "failed")
              /\ IF AfterPaste(changed, includes) = "return"
                   THEN jSlateRet' = "true" /\ jPc' = "slateReturned"
                   ELSE jPc' = "slateInput" /\ UNCHANGED jSlateRet
     \/ /\ jOutcome' = Append(jOutcome, "threw")
        /\ jPc' = "slateInput" /\ UNCHANGED <<jDoc, jSlateRet>>
  /\ UNCHANGED <<jAdapter, jEnv, jEditor, jHtmlWrites, jRet, combineVars, managerVars, detectVars, adapterVars>>

\* triggerReactChange (lines 490-507): re-assigns the element's own innerHTML
\* through the property descriptor of HTMLElement.prototype when that descriptor
\* has a setter, then dispatches events.  The value written is the current HTML.
TriggerReactChangeWrites(hasSetter, writes) ==
  IF hasSetter THEN Append(writes, "same") ELSE writes

\* Strategy 3 (lines 619-670): keyboard select-all, one beforeinput/input event
\* with the whole text, triggerReactChange, `return true` without checking the
\* content.  An exception is caught by the inner catch and the function then ends
\* without a return statement.
SlateInput ==
  /\ jPc = "slateInput"
  /\ jTried' = Append(jTried, StrategyInput)
  /\ \/ /\ jOutcome' = Append(jOutcome, "ok")
        /\ \E d \in {jDoc, "reply"} : jDoc' = d
        /\ \E hasSetter \in BOOLEAN :
             jHtmlWrites' = TriggerReactChangeWrites(hasSetter, jHtmlWrites)
        /\ jSlateRet' = "true"
     \/ /\ jOutcome' = Append(jOutcome, "threw")
        /\ jSlateRet' = "undefined"
        /\ UNCHANGED <<jDoc, jHtmlWrites>>
  /\ jPc' = "slateReturned"
  /\ UNCHANGED <<jAdapter, jEnv, jEditor, jRet, combineVars, managerVars, detectVars, adapterVars>>

\* Back in injectReply (lines 445-452, 482-484): `success` is only logged, then
\* the success notification is shown and true is returned.
HsInjectReturn(success) == "true"

HsAfterSlate ==
  /\ jPc = "slateReturned"
  /\ jRet' = HsInjectReturn(jSlateRet)
  /\ jPc' = "done"
  /\ UNCHANGED <<jAdapter, jEnv, jEditor, jTried, jOutcome, jSlateRet, jDoc,
                 jHtmlWrites, combineVars, managerVars, detectVars, adapterVars>>

(***************************************************************************)
(* PlatformManager.executeAdapterMethod: what the dispatcher hands back.   *)
(***************************************************************************)
FacadeMethods == {"extractThread", "injectReply", "extractCustomerInfo", "getCurrentUser",
                  "getReplyEditor", "showGeneratingStatus", "clearGeneratingStatus"}

\* The switch of the catch block (lines 323-336).
SafeDefault_AlwaysNull(methodName) == "null"

SafeDefault(methodName) ==
  CASE methodName = "extractThread" -> "[]"
    [] methodName \in {"extractCustomerInfo", "getCurrentUser", "getReplyEditor"} -> "null"
    [] methodName \in {"injectReply", "showGeneratingStatus", "clearGeneratingStatus"} -> "false"
    [] OTHER -> "null"

\* `return result` of the try block, or the default of the catch block.
DispatchReturn(methodName, threw, result) ==
  IF threw THEN SafeDefault(methodName) ELSE result

InjectNext ==
  \/ BaseInjectReply
  \/ HsGetReplyEditor
  \/ HsGetReplyEditorAfterClick
  \/ HsInjectBranch
  \/ SlateApi
  \/ SlatePaste
  \/ SlateInput
  \/ HsAfterSlate

(***************************************************************************)
(* The manager (src/platformManager.js) with the detector cache            *)
(* (src/platformDetection.js).                                             *)
(*                                                                         *)
(* JavaScript runs one job at a time.  An async function runs synchronously *)
(* up to its next await; its continuation is a microtask, and microtasks    *)
(* run first-in first-out before any timer fires.  microQ holds the         *)
(* invocations of _performInitialization whose continuation is queued;      *)
(* timer-driven steps need microQ empty.  Calls from outside (page script,  *)
(* other microtasks) may come between any two steps.                        *)
(***************************************************************************)
MaxInits == 4     \* _performInitialization invocations per run
MaxCalls == 2     \* calls made on the manager from outside per run
MaxTime  == 6     \* last minute of the clock

maxErrors      == 3   \* this.maxErrors
retryDelay     == 1000   \* this.retryDelay, in ms
CACHE_DURATION == 5   \* 5 * 60 * 1000 ms, in minutes

InvIds  == 1..MaxInits
CallIds == 1..MaxCalls

\* Pages by what detectByURL, detectByDOM and detectByAPI return on them.  The
\* page may change between any two steps (client-side navigation), so every
\* detection run draws the page it sees.
Pages == { [url |-> "freescout", dom |-> "freescout", api |-> "none"],
           [url |-> "helpscout", dom |-> "helpscout", api |-> "helpscout"],
           [url |-> "helpscout", dom |-> "freescout", api |-> "none"],
           [url |-> "none",      dom |-> "none",      api |-> "none"] }

\* PlatformDetector.getUserOverride: "For now, return null".
getUserOverride == "none"

\* The world the manager code reads and writes, as one record.
Cur == [m |-> mgr, d |-> det, inv |-> inv, n |-> nInv, q |-> microQ, h |-> hist]

Install(s) ==
  /\ mgr' = s.m /\ det' = s.d /\ inv' = s.inv /\ nInv' = s.n /\ microQ' = s.q
  /\ hist' = s.h

\* Manager fields after the constructor and after reset().  platformEpoch is
\* history: the number of resets begun when the detection run that produced
\* `platform` ran, -1 when `platform` was cleared and not detected.
FreshManager ==
  [adapter |-> 0, platform |-> "none", platformEpoch |-> -1, initialized |-> FALSE,
   initPromise |-> 0, errorCount |-> 0, opCount |-> 0, errMetric |-> 0]

\* PlatformDetector.clearCache (timestamp -1 is null).
clearCache == [cachedPlatform |-> "none", cacheTimestamp |-> -1, cacheEpoch |-> -1]

\* PlatformDetector.cacheResult.
cacheResult(platform, epoch) ==
  [cachedPlatform |-> platform, cacheTimestamp |-> now, cacheEpoch |-> epoch]

\* PlatformDetector.isCacheValid.
isCacheValid_Inclusive(d) ==
  /\ Truthy(d.cachedPlatform) /\ d.cacheTimestamp # -1
  /\ (now - d.cacheTimestamp) <= CACHE_DURATION

isCacheValid_AnyResult(d) ==
  /\ d.cacheTimestamp # -1
  /\ (now - d.cacheTimestamp) < CACHE_DURATION

isCacheValid(d) ==
  /\ Truthy(d.cachedPlatform) /\ d.cacheTimestamp # -1
  /\ (now - d.cacheTimestamp) < CACHE_DURATION

\* PlatformDetector.detectPlatform on the page pg as it is at the call: the
\* cached value, or the four strategies combined and cached.  Returns the
\* world, the value and its epoch.
detectPlatform(s, pg) ==
  IF isCacheValid(s.d)
    THEN [s |-> s, v |-> s.d.cachedPlatform, e |-> s.d.cacheEpoch]
    ELSE LET v == combineDetectionStrategies(pg.url, pg.dom, pg.api, getUserOverride)
         IN  [s |-> [s EXCEPT !.d = cacheResult(v, s.h.resets)], v |-> v, e |-> s.h.resets]

\* PlatformManager.handleError: count, record the metric, emit one error event.
handleError_NoCount(s, operation) ==
  [s EXCEPT !.m.errMetric = @ + 1, !.h.errorEvents = @ + 1,
            !.h.initErrors = IF operation = "initialization" THEN @ + 1 ELSE @]

handleError(s, operation) ==
  [s EXCEPT !.m.errorCount = @ + 1, !.m.errMetric = @ + 1, !.h.errorEvents = @ + 1,
            !.h.initErrors = IF operation = "initialization" THEN @ + 1 ELSE @]

\* `return value` of _performInitialization: its promise resolves one microtask on.
InitReturns(s, i, value) ==
  [s EXCEPT !.inv[i].pc = "settling", !.inv[i].result = value, !.q = Append(@, i)]

\* The argument of this.delay in the catch block (line 105), in ms.
retryWait(errorCount) == retryDelay * errorCount

\* The catch block of _performInitialization up to its await (lines 98-110).
initCatch(s, i) ==
  LET s1 == handleError(s, "initialization")
  IN  IF s1.m.errorCount < maxErrors
        THEN [s1 EXCEPT !.inv[i].pc = "backoff",
                        !.inv[i].delay = retryWait(s1.m.errorCount)]
        ELSE InitReturns(s1, i, "false")

\* _performInitialization up to its first await (lines 54-65).
performInitialization(s, i, pg) ==
  IF ~detectorLoaded
    THEN initCatch(s, i)
    ELSE LET r == detectPlatform(s, pg)
         IN  [r.s EXCEPT !.inv[i].pc = "detecting", !.inv[i].pending = r.v,
                         !.inv[i].pendEpoch = r.e, !.q = Append(@, i)]

\* PlatformManager.initialize (lines 36-49).  Returns the world and either the
\* promise (an invocation id) or, with promise 0, the value returned at once.
initialize_NoJoin(s, pg) ==
  IF s.m.initialized /\ s.m.adapter # 0
    THEN [s |-> s, promise |-> 0, value |-> "true"]
    ELSE LET i  == s.n + 1
             s1 == performInitialization([s EXCEPT !.n = i], i, pg)
         IN  [s |-> [s1 EXCEPT !.m.initPromise = i], promise |-> i, value |-> "pending"]

\* As initialize below, but a manager that is initialized initializes again.
initialize_Reinitializes(s, pg) ==
  IF s.m.initPromise # 0 /\ ~(s.m.initialized /\ s.m.adapter # 0 /\ s.n < MaxInits)
    THEN [s |-> s, promise |-> s.m.initPromise, value |-> "pending"]
  ELSE IF s.m.initialized /\ s.m.adapter # 0 /\ ~(s.n < MaxInits)
    THEN [s |-> s, promise |-> 0, value |-> "true"]
    ELSE LET i  == s.n + 1
             s1 == performInitialization([s EXCEPT !.n = i], i, pg)
         IN  [s |-> [s1 EXCEPT !.m.initPromise = i], promise |-> i, value |-> "pending"]

initialize(s, pg) ==
  IF s.m.initPromise # 0
    THEN [s |-> s, promise |-> s.m.initPromise, value |-> "pending"]
  ELSE IF s.m.initialized /\ s.m.adapter # 0
    THEN [s |-> s, promise |-> 0, value |-> "true"]
    ELSE LET i  == s.n + 1
             s1 == performInitialization([s EXCEPT !.n = i], i, pg)
         IN  [s |-> [s1 EXCEPT !.m.initPromise = i], promise |-> i, value |-> "pending"]

\* The model stops starting invocations at MaxInits: initialize() may be called
\* when it joins or returns at once, or when an invocation is left.
CanInitialize(s) ==
  \/ s.m.initPromise # 0
  \/ (s.m.initialized /\ s.m.adapter # 0)
  \/ s.n < MaxInits

\* PlatformManager.loadAdapter up to its await (lines 117-147).  The adapter
\* class is missing or its constructor throws (catch: adapter = null, return
\* false), or the adapter is constructed and its initialize() awaited, which
\* settles by microtasks or after timers (Help Scout readiness polling).
loadAdapter(s, i, constructs, wait) ==
  IF ~constructs
    THEN [s EXCEPT !.m.adapter = 0, !.inv[i].pc = "loaded", !.inv[i].loadOk = FALSE,
                   !.q = Append(@, i)]
    ELSE LET a == s.h.constructed + 1
         IN  [s EXCEPT !.m.adapter = a, !.h.constructed = a, !.h.kind[a] = s.m.platform,
                       !.inv[i].pc = "loading", !.inv[i].wait = wait, !.inv[i].built = a,
                       !.q = IF wait = "micro" THEN Append(@, i) ELSE @]

\* As afterDetect below, but a page without a platform is handled by the
\* catch block.
afterDetect_NoPlatformThrows(s, i, constructs, wait) ==
  LET s1 == [s EXCEPT !.m.platform = s.inv[i].pending,
                      !.m.platformEpoch = s.inv[i].pendEpoch,
                      !.inv[i].pending = "none", !.inv[i].pendEpoch = -1]
  IN  IF ~Truthy(s1.m.platform)
        THEN initCatch([s1 EXCEPT !.h.initNoPlatform = @ + 1], i)
        ELSE loadAdapter(s1, i, constructs, wait)

\* _performInitialization after `await detectPlatform()` (lines 65-77).
afterDetect(s, i, constructs, wait) ==
  LET s1 == [s EXCEPT !.m.platform = s.inv[i].pending,
                      !.m.platformEpoch = s.inv[i].pendEpoch,
                      !.inv[i].pending = "none", !.inv[i].pendEpoch = -1]
  IN  IF ~Truthy(s1.m.platform)
        THEN InitReturns([s1 EXCEPT !.h.initNoPlatform = @ + 1], i, "false")
        ELSE loadAdapter(s1, i, constructs, wait)

\* loadAdapter after `await this.adapter.initialize()` (lines 147-165): the
\* await rejected, or reading this.adapter.isReady throws because reset() has
\* cleared this.adapter meanwhile (both: catch, adapter = null, return false),
\* or loadAdapter returns true.
afterAdapterInitialize(s, i, resolved) ==
  IF resolved /\ s.m.adapter # 0
    THEN [s EXCEPT !.inv[i].pc = "loaded", !.inv[i].loadOk = TRUE, !.inv[i].wait = "micro",
                   !.inv[i].built = 0, !.q = Append(@, i)]
    ELSE [s EXCEPT !.m.adapter = 0, !.inv[i].pc = "loaded", !.inv[i].loadOk = FALSE,
                   !.inv[i].wait = "micro", !.inv[i].built = 0, !.q = Append(@, i)]

\* _performInitialization after `await this.loadAdapter()` (lines 77-100).
afterLoad(s, i) ==
  IF s.inv[i].loadOk
    THEN InitReturns([s EXCEPT !.m.initialized = TRUE, !.h.initOk = @ + 1,
                               !.inv[i].loadOk = FALSE], i, "true")
    ELSE initCatch(s, i)

\* The retry after the back-off delay (lines 106-107).
afterDelay(s, i, pg) ==
  LET r == initialize([s EXCEPT !.m.initPromise = 0], pg)
  IN  IF r.promise # 0
        THEN [r.s EXCEPT !.inv[i].pc = "chained", !.inv[i].next = r.promise,
                         !.inv[r.promise].retry = s.inv[i].retry + 1,
                         !.inv[r.promise].waited = s.inv[i].delay]
        ELSE InitReturns(r.s, i, r.value)

\* An invocation of _performInitialization that has not started, or has
\* returned: it runs no further statement of the manager.
InvAtRest == {"idle", "settling", "done", "chained"}

\* PlatformManager.reset up to its return (lines 429-460).  History:
\* superseded, the invocations that were running when a reset() was called.
reset(s, pg) ==
  LET a  == s.m.adapter
      s1 == [s EXCEPT !.h.cleanups = IF a # 0 THEN [@ EXCEPT ![a] = @ + 1] ELSE @,
                      !.h.resets = @ + 1,
                      !.h.superseded = @ \cup {i \in 1..s.n : s.inv[i].pc \notin InvAtRest},
                      !.m = FreshManager,
                      !.d = IF detectorLoaded THEN clearCache ELSE @]
  IN  initialize(s1, pg)

\* What a promise has resolved to: "pending", "true" or "false".  A retrying
\* invocation resolves with the invocation it returned.
RECURSIVE Resolved(_, _)
Resolved(f, p) ==
  IF f[p].pc = "done" THEN f[p].result
  ELSE IF f[p].pc = "chained" THEN Resolved(f, f[p].next)
  ELSE "pending"

\* What the adapter methods return (the return statements of the adapters);
\* "value" is a non-empty result.
AdapterReturns(kind, methodName) ==
  CASE methodName = "extractThread" -> {"[]", "value"}
    [] methodName = "injectReply" ->
         IF kind = "helpscout" THEN {"true", "false"} ELSE {"undefined"}
    [] methodName \in {"extractCustomerInfo", "getCurrentUser", "getReplyEditor"} ->
         {"null", "value"}
    [] OTHER -> {"undefined"}

\* Both adapter classes define (or inherit) every facade method.
AdapterHasMethod(kind, methodName) == methodName \in FacadeMethods

\* The names executeAdapterMethod is called with: by the facade methods, or directly
\* with a name that no adapter defines.
DispatcherMethods == FacadeMethods \cup {"noSuchMethod"}

\* History of an invocation: retry, the number of back-offs that led to it (0 for an
\* invocation started by a call from outside), and waited, the length of the last one.
IdleInv ==
  [pc |-> "idle", pending |-> "none", pendEpoch |-> -1, wait |-> "micro", built |-> 0,
   loadOk |-> FALSE, next |-> 0, result |-> "pending", delay |-> 0, retry |-> 0,
   waited |-> 0]

\* A call from outside: op, where it waits, the promise it awaits, the adapter
\* whose method it invoked, its result and whether the result came from the
\* catch block.  A healthCheck() call also holds the facade method it is
\* running (probe) and the health fields it has filled in (ready, canInject,
\* canExtract).  History: seen, what the dispatcher returned to the call, in order.
\* History of an initialize() call: after, whether an earlier initialize() call
\* had resolved true when it was made.  History: epoch (resets begun when it was made, itself
\* included), cleaned (the adapter reset() found) and obs (what getPlatform()
\* returns when the promise of initialize()/reset() resolves).
IdleCall ==
  [op |-> "none", pc |-> "idle", promise |-> 0, adapter |-> 0, result |-> "unset",
   path |-> "none", epoch |-> -1, cleaned |-> 0,
   obs |-> [platform |-> "none", epoch |-> -1, resets |-> -1],
   probe |-> "none", ready |-> FALSE, canInject |-> FALSE, canExtract |-> FALSE,
   seen |-> <<>>, after |-> FALSE]

\* The facade method a call is executing: healthCheck() runs getReplyEditor()
\* and then extractThread() through the dispatcher (probe).
MethodOf(cr) == IF cr.op = "healthCheck" THEN cr.probe ELSE cr.op

\* The promise of initialize() / reset() resolves for its caller.
Deliver(cr, s) ==
  IF cr.pc = "awaitInit" /\ cr.op \in {"initialize", "reset"}
     /\ Resolved(s.inv, cr.promise) # "pending"
    THEN [cr EXCEPT !.pc = "done", !.result = Resolved(s.inv, cr.promise),
                    !.obs = IF cr.op = "reset"
                              THEN [platform |-> s.m.platform, epoch |-> s.m.platformEpoch,
                                    resets |-> s.h.resets]
                              ELSE @]
    ELSE cr

\* executeAdapterMethod from the adapter check to the method call (lines
\* 297-309), or through the catch block (lines 318-336).
dispatchCatch(s, cr) ==
  [s |-> handleError(s, MethodOf(cr)),
   cr |-> [cr EXCEPT !.pc = "done",
                     !.result = DispatchReturn(MethodOf(cr), TRUE, "unset"),
                     !.seen = Append(@, DispatchReturn(MethodOf(cr), TRUE, "unset")),
                     !.path = "caught"]]

\* HelpScoutAdapter.getReplyEditor clicks the page's Reply button when it finds
\* no editor and an enabled Reply button (helpscoutAdapter.js 403-407), in the
\* synchronous part of the method call.
MayClick(s, methodName) ==
  /\ s.m.adapter # 0
  /\ s.h.kind[s.m.adapter] = "helpscout"
  /\ methodName = "getReplyEditor"

ClickChoices(s, methodName) == IF MayClick(s, methodName) THEN BOOLEAN ELSE {FALSE}

dispatch_CallsMissingMethod(s, cr, clicks) ==
  IF s.m.adapter = 0
    THEN dispatchCatch(s, cr)
    ELSE [s |-> [s EXCEPT !.m.opCount = @ + 1,
                          !.h.replyClicks = IF clicks THEN @ + 1 ELSE @],
          cr |-> [cr EXCEPT !.pc = "awaitMethod", !.adapter = s.m.adapter]]

dispatch(s, cr, clicks) ==
  IF s.m.adapter = 0 \/ ~AdapterHasMethod(s.h.kind[s.m.adapter], MethodOf(cr))
    THEN dispatchCatch(s, cr)
    ELSE [s |-> [s EXCEPT !.m.opCount = @ + 1,
                          !.h.replyClicks = IF clicks THEN @ + 1 ELSE @],
          cr |-> [cr EXCEPT !.pc = "awaitMethod", !.adapter = s.m.adapter]]

\* The pages a step of a call may run a detection on: only healthCheck's
\* extractThread() can start an initialization from a continuation.
ProbePages(cr) ==
  IF cr.op = "healthCheck" THEN Pages
  ELSE {[url |-> "none", dom |-> "none", api |-> "none"]}

\* PlatformManager.healthCheck: the status from the filled-in health object
\* (lines 511-517).
healthStatus_ReadyIsHealthy(adapterReady, canExtractThread, canInjectReply) ==
  IF adapterReady THEN "healthy" ELSE "unhealthy"

healthStatus(adapterReady, canExtractThread, canInjectReply) ==
  IF adapterReady /\ (canExtractThread \/ canInjectReply) THEN "healthy"
  ELSE IF adapterReady THEN "partial"
  ELSE "unhealthy"

\* healthCheck after one of its two facade calls has resolved (lines 504-517):
\* after getReplyEditor() it calls extractThread(), which enters the
\* dispatcher (lines 287-309); after extractThread() it returns the health
\* object.  d is the state and the call record the facade call left.
RECURSIVE healthContinue(_, _)
healthContinue(d, pg) ==
  IF d.cr.op # "healthCheck" \/ d.cr.pc # "done" THEN d
  ELSE IF d.cr.probe = "getReplyEditor"
    THEN LET cr1 == [d.cr EXCEPT !.probe = "extractThread", !.pc = "idle",
                                 !.result = "unset", !.path = "none",
                                 !.canInject = (d.cr.result # "null")]
         IN  IF ~d.s.m.initialized
               THEN LET r == initialize(d.s, pg)
                    IN  [s |-> r.s,
                         cr |-> [cr1 EXCEPT !.pc = "awaitInit", !.promise = r.promise]]
               ELSE healthContinue(dispatch(d.s, cr1, FALSE), pg)
    ELSE [s |-> d.s,
          cr |-> [d.cr EXCEPT !.probe = "none", !.path = "none",
                              !.result = healthStatus(d.cr.ready, d.cr.result = "value",
                                                      d.cr.canInject),
                              !.canExtract = (d.cr.result = "value")]]

envVars == <<now, detectorLoaded>>

\* ---- calls from outside
CallInitialize ==
  /\ nCalls < MaxCalls /\ CanInitialize(Cur)
  /\ \E pg \in Pages :
     LET r  == initialize(Cur, pg)
         cr == [IdleCall EXCEPT !.op = "initialize",
                  !.pc = IF r.promise # 0 THEN "awaitInit" ELSE "done",
                  !.promise = r.promise,
                  !.result = IF r.promise # 0 THEN "unset" ELSE r.value,
                  !.epoch = hist.resets,
                  !.after = \E c \in CallIds : /\ calls[c].op = "initialize"
                                               /\ calls[c].pc = "done"
                                               /\ calls[c].result = "true"]
     IN  /\ Install(r.s)
         /\ calls' = [calls EXCEPT ![nCalls + 1] = Deliver(cr, r.s)]
  /\ nCalls' = nCalls + 1
  /\ UNCHANGED <<envVars, combineVars, injectVars, detectVars, adapterVars>>

CallReset ==
  /\ nCalls < MaxCalls /\ nInv < MaxInits
  /\ \E pg \in Pages :
     LET r  == reset(Cur, pg)
         cr == [IdleCall EXCEPT !.op = "reset",
                  !.pc = IF r.promise # 0 THEN "awaitInit" ELSE "done",
                  !.promise = r.promise,
                  !.result = IF r.promise # 0 THEN "unset" ELSE r.value,
                  !.epoch = r.s.h.resets, !.cleaned = mgr.adapter]
     IN  /\ Install(r.s)
         /\ calls' = [calls EXCEPT ![nCalls + 1] = Deliver(cr, r.s)]
  /\ nCalls' = nCalls + 1
  /\ UNCHANGED <<envVars, combineVars, injectVars, detectVars, adapterVars>>

\* A facade method: executeAdapterMethod up to its first await (lines 287-309).
CallFacade(methodName) ==
  /\ nCalls < MaxCalls
  /\ LET cr0 == [IdleCall EXCEPT !.op = methodName, !.epoch = hist.resets]
     IN  IF ~mgr.initialized
           THEN /\ CanInitialize(Cur)
                /\ \E pg \in Pages :
                   LET r == initialize(Cur, pg)
                   IN  /\ Install(r.s)
                       /\ calls' = [calls EXCEPT ![nCalls + 1] =
                                      [cr0 EXCEPT !.pc = "awaitInit", !.promise = r.promise]]
           ELSE \E clicks \in ClickChoices(Cur, methodName) :
                LET d == dispatch(Cur, cr0, clicks)
                IN  /\ Install(d.s)
                    /\ calls' = [calls EXCEPT ![nCalls + 1] = d.cr]
  /\ nCalls' = nCalls + 1
  /\ UNCHANGED <<envVars, combineVars, injectVars, detectVars, adapterVars>>

\* PlatformManager.getMetrics (lines 466-473): a copy of the metrics.
CallGetMetrics ==
  /\ nCalls < MaxCalls
  /\ calls' = [calls EXCEPT ![nCalls + 1] =
                 [IdleCall EXCEPT !.op = "getMetrics", !.pc = "done", !.result = "value",
                                  !.epoch = hist.resets]]
  /\ nCalls' = nCalls + 1
  /\ UNCHANGED <<mgr, det, inv, nInv, microQ, hist, envVars, combineVars, injectVars,
                 detectVars, adapterVars>>

\* PlatformManager.healthCheck up to its first await (lines 478-504): the two
\* early returns, adapter.isReady() (only HelpScoutAdapter defines it) and the
\* call of this.getReplyEditor().
CallHealthCheck ==
  /\ nCalls < MaxCalls
  /\ LET cr0 == [IdleCall EXCEPT !.op = "healthCheck", !.epoch = hist.resets]
     IN  IF ~mgr.initialized
           THEN /\ calls' = [calls EXCEPT ![nCalls + 1] =
                               [cr0 EXCEPT !.pc = "done", !.result = "not_initialized"]]
                /\ UNCHANGED <<mgr, det, inv, nInv, microQ, hist>>
         ELSE IF mgr.adapter = 0
           THEN /\ calls' = [calls EXCEPT ![nCalls + 1] =
                               [cr0 EXCEPT !.pc = "done", !.result = "no_adapter"]]
                /\ UNCHANGED <<mgr, det, inv, nInv, microQ, hist>>
         ELSE \E ready \in IF hist.kind[mgr.adapter] = "helpscout" THEN BOOLEAN ELSE {TRUE} :
              \E clicks \in ClickChoices(Cur, "getReplyEditor") :
              \E pg \in Pages :
                LET d == healthContinue(
                           dispatch(Cur, [cr0 EXCEPT !.probe = "getReplyEditor",
                                                     !.ready = ready], clicks), pg)
                IN  /\ Install(d.s)
                    /\ calls' = [calls EXCEPT ![nCalls + 1] = d.cr]
  /\ nCalls' = nCalls + 1
  /\ UNCHANGED <<envVars, combineVars, injectVars, detectVars, adapterVars>>

\* executeAdapterMethod after `await this.initialize()` (lines 291-309).
FacadeAfterInit(c) ==
  /\ calls[c].pc = "awaitInit" /\ MethodOf(calls[c]) \in DispatcherMethods
  /\ Resolved(inv, calls[c].promise) # "pending"
  /\ \E clicks \in ClickChoices(Cur, MethodOf(calls[c])) : \E pg \in ProbePages(calls[c]) :
     LET d == healthContinue(IF Resolved(inv, calls[c].promise) = "true"
                               THEN dispatch(Cur, calls[c], clicks)
                               ELSE dispatchCatch(Cur, calls[c]), pg)
     IN  /\ Install(d.s)
         /\ calls' = [calls EXCEPT ![c] = d.cr]
  /\ UNCHANGED <<nCalls, envVars, combineVars, injectVars, detectVars, adapterVars>>

\* executeAdapterMethod after the adapter method returned (lines 311-314).
methodSucceeded_KeepsCount(s) == s

methodSucceeded(s) == IF s.m.errorCount > 0 THEN [s EXCEPT !.m.errorCount = 0] ELSE s

\* executeAdapterMethod after `await this.adapter[methodName](...)` (lines
\* 309-336): the method returned a value or threw / rejected.
FacadeMethodSettles(c) ==
  /\ calls[c].pc = "awaitMethod"
  /\ \E threw \in BOOLEAN :
     \E value \in AdapterReturns(hist.kind[calls[c].adapter], MethodOf(calls[c])) :
     \E pg \in ProbePages(calls[c]) :
       LET s2 == IF threw THEN handleError(Cur, MethodOf(calls[c]))
                 ELSE methodSucceeded(Cur)
           cr == [calls[c] EXCEPT
                    !.pc = "done", !.adapter = 0,
                    !.result = DispatchReturn(MethodOf(calls[c]), threw, value),
                    !.seen = Append(@, DispatchReturn(MethodOf(calls[c]), threw, value)),
                    !.path = IF threw THEN "caught" ELSE "returned"]
           d  == healthContinue([s |-> s2, cr |-> cr], pg)
       IN  /\ (calls[c].op = "healthCheck" /\ ~s2.m.initialized) => CanInitialize(s2)
           /\ Install(d.s)
           /\ calls' = [calls EXCEPT ![c] = d.cr]
  /\ UNCHANGED <<nCalls, envVars, combineVars, injectVars, detectVars, adapterVars>>

\* ---- continuations of _performInitialization
Pop(s) == [s EXCEPT !.q = Tail(@)]
AtHead(i) == microQ # <<>> /\ Head(microQ) = i

AfterDetect(i) ==
  /\ AtHead(i) /\ inv[i].pc = "detecting"
  /\ \E constructs \in BOOLEAN : \E wait \in {"micro", "timer"} :
       Install(afterDetect(Pop(Cur), i, constructs, wait))
  /\ UNCHANGED <<calls, nCalls, envVars, combineVars, injectVars, detectVars, adapterVars>>

\* adapter.initialize() settles.  Only HelpScoutAdapter.initialize can reject:
\* the base initialize() catches every error.
AdapterInitializeSettles(i) ==
  /\ inv[i].pc = "loading"
  /\ \/ inv[i].wait = "micro" /\ AtHead(i)
     \/ inv[i].wait = "timer" /\ microQ = <<>>
  /\ \E resolved \in BOOLEAN :
       /\ (~resolved) => hist.kind[inv[i].built] = "helpscout"
       /\ Install(afterAdapterInitialize(
                    IF inv[i].wait = "micro" THEN Pop(Cur) ELSE Cur, i, resolved))
  /\ UNCHANGED <<calls, nCalls, envVars, combineVars, injectVars, detectVars, adapterVars>>

AfterLoad(i) ==
  /\ AtHead(i) /\ inv[i].pc = "loaded"
  /\ Install(afterLoad(Pop(Cur), i))
  /\ UNCHANGED <<calls, nCalls, envVars, combineVars, injectVars, detectVars, adapterVars>>

\* The back-off timer fires.
BackoffEnds(i) ==
  /\ inv[i].pc = "backoff" /\ microQ = <<>>
  /\ CanInitialize([Cur EXCEPT !.m.initPromise = 0])
  /\ \E pg \in Pages : Install(afterDelay(Cur, i, pg))
  /\ UNCHANGED <<calls, nCalls, envVars, combineVars, injectVars, detectVars, adapterVars>>

\* The promise of invocation i resolves; initialize()/reset() callers see it.
Settle(i) ==
  /\ AtHead(i) /\ inv[i].pc = "settling"
  /\ LET s2 == [Pop(Cur) EXCEPT !.inv[i].pc = "done"]
     IN  /\ Install(s2)
         /\ calls' = [c \in CallIds |-> Deliver(calls[c], s2)]
  /\ UNCHANGED <<nCalls, envVars, combineVars, injectVars, detectVars, adapterVars>>

\* ---- the clock
\* Five minutes pass (no microtask is pending by then).
LongPause ==
  /\ microQ = <<>> /\ now + CACHE_DURATION <= MaxTime
  /\ now' = now + CACHE_DURATION
  /\ UNCHANGED <<mgr, det, inv, nInv, microQ, calls, nCalls, detectorLoaded, hist,
                 combineVars, injectVars, detectVars, adapterVars>>

ManagerNext ==
  \/ CallInitialize
  \/ CallReset
  \/ \E methodName \in DispatcherMethods : CallFacade(methodName)
  \/ CallGetMetrics
  \/ CallHealthCheck
  \/ \E c \in CallIds : FacadeAfterInit(c)
  \/ \E c \in CallIds : FacadeMethodSettles(c)
  \/ \E i \in InvIds : AfterDetect(i)
  \/ \E i \in InvIds : AdapterInitializeSettles(i)
  \/ \E i \in InvIds : AfterLoad(i)
  \/ \E i \in InvIds : BackoffEnds(i)
  \/ \E i \in InvIds : Settle(i)
  \/ LongPause

NoHistory ==
  [constructed |-> 0, kind |-> [a \in InvIds |-> "none"], cleanups |-> [a \in InvIds |-> 0],
   resets |-> 0, superseded |-> {}, replyClicks |-> 0, errorEvents |-> 0, initErrors |-> 0, initOk |-> 0, initNoPlatform |-> 0]

ManagerStart ==
  /\ mgr = FreshManager /\ det = clearCache
  /\ inv = [i \in InvIds |-> IdleInv] /\ nInv = 0 /\ microQ = <<>>
  /\ calls = [c \in CallIds |-> IdleCall] /\ nCalls = 0
  /\ now = 1 /\ hist = NoHistory

ManagerIdle ==
  /\ ManagerStart
  /\ detectorLoaded = TRUE

ManagerInit ==
  /\ ManagerStart
  /\ detectorLoaded \in BOOLEAN

(***************************************************************************)
(* PlatformDetector.detectPlatform on a changing page                      *)
(* (src/platformDetection.js).  A page is what the three strategies read:  *)
(*   url  which substrings and path patterns the URL matches               *)
(*   dom  unique markers present, general markers found per platform       *)
(*   api  host globals present, first platform named by a meta tag         *)
(***************************************************************************)
\* Number of general DOM markers per platform (selectors + dataAttributes of
\* DOM_MARKERS): the `total` of calculateDOMScore.
HsMarkerTotal == 7
FsMarkerTotal == 6

\* URLs by what matchesPattern and the exclude/include checks read:
\*   hsNet   contains helpscout.net (secure.helpscout.net contains it too)
\*   hsCom   contains helpscout.com
\*   hsPath  matches /conversations/*, /inboxes/*/views or /conversation/*/
\*   fsWord  contains freescout or conversation
\*   fsPath  matches /conversation/* or /mailbox/*
Urls == [hsNet : BOOLEAN, hsCom : BOOLEAN, hsPath : BOOLEAN, fsWord : BOOLEAN,
         fsPath : BOOLEAN]

\* PlatformDetector.matchesPattern: an include substring or a path pattern.
matchesPattern(url, platform) ==
  IF platform = "helpscout" THEN url.hsNet \/ url.hsCom \/ url.hsPath
  ELSE url.fsWord \/ url.fsPath

\* PlatformDetector.detectByURL.
detectByURL_FreeScoutFirst(url) ==
  IF matchesPattern(url, "freescout") THEN "freescout"
  ELSE IF matchesPattern(url, "helpscout") /\ url.hsNet THEN "helpscout"
  ELSE "none"

detectByURL(url) ==
  IF matchesPattern(url, "helpscout")
    THEN IF ~url.hsNet THEN "none" ELSE "helpscout"
  ELSE IF matchesPattern(url, "freescout") /\ ~(url.hsNet \/ url.hsCom)
    THEN "freescout"
  ELSE "none"

\* Documents: one record per branch of detectByDOM.
Doms ==
  { [hsUnique |-> TRUE,  fsUnique |-> TRUE,  hsFound |-> 0, fsFound |-> 0],
    [hsUnique |-> FALSE, fsUnique |-> TRUE,  hsFound |-> 5, fsFound |-> 0],
    [hsUnique |-> FALSE, fsUnique |-> FALSE, hsFound |-> 5, fsFound |-> 4],
    [hsUnique |-> FALSE, fsUnique |-> FALSE, hsFound |-> 4, fsFound |-> 5],
    [hsUnique |-> FALSE, fsUnique |-> FALSE, hsFound |-> 0, fsFound |-> 4],
    [hsUnique |-> FALSE, fsUnique |-> FALSE, hsFound |-> 0, fsFound |-> 3],
    [hsUnique |-> FALSE, fsUnique |-> FALSE, hsFound |-> 3, fsFound |-> 0],
    [hsUnique |-> FALSE, fsUnique |-> FALSE, hsFound |-> 0, fsFound |-> 0] }

\* PlatformDetector.detectByDOM; the scores found / total are compared as
\* fractions (a/7 > b/6 iff 6a > 7b; a/total > 0.5 iff 2a > total).
detectByDOM(doc) ==
  IF doc.hsUnique THEN "helpscout"
  ELSE IF doc.fsUnique THEN "freescout"
  ELSE IF doc.hsFound * FsMarkerTotal > doc.fsFound * HsMarkerTotal
          /\ 2 * doc.hsFound > HsMarkerTotal THEN "helpscout"
  ELSE IF doc.fsFound * HsMarkerTotal > doc.hsFound * FsMarkerTotal
          /\ 2 * doc.fsFound > FsMarkerTotal THEN "freescout"
  ELSE "none"

\* Host globals and meta tags: hsGlobal is window.hsGlobal || appData ||
\* HelpScout, fsGlobal is window.fsGlobal || FreeScout || Conversation, meta is
\* the platform of the first meta tag that names one.
Apis ==
  { [hsGlobal |-> TRUE,  fsGlobal |-> TRUE,  meta |-> "none"],
    [hsGlobal |-> FALSE, fsGlobal |-> TRUE,  meta |-> "helpscout"],
    [hsGlobal |-> FALSE, fsGlobal |-> FALSE, meta |-> "helpscout"],
    [hsGlobal |-> FALSE, fsGlobal |-> FALSE, meta |-> "freescout"],
    [hsGlobal |-> FALSE, fsGlobal |-> FALSE, meta |-> "none"] }

\* PlatformDetector.detectByAPI.
detectByAPI(api) ==
  IF api.hsGlobal THEN "helpscout"
  ELSE IF api.fsGlobal THEN "freescout"
  ELSE api.meta

\* The three votes of detectPlatform (lines 73-81) on a page.
StrategyVotes(url, doc, api) ==
  [url |-> detectByURL(url), dom |-> detectByDOM(doc), api |-> detectByAPI(api)]

NoUrl == [hsNet |-> FALSE, hsCom |-> FALSE, hsPath |-> FALSE, fsWord |-> FALSE,
          fsPath |-> FALSE]

NoVotes == [done |-> FALSE, url |-> "none", dom |-> "none", api |-> "none",
            value |-> "none"]

VotesIdle ==
  /\ vPage = [url |-> NoUrl,
              doc |-> [hsUnique |-> FALSE, fsUnique |-> FALSE, hsFound |-> 0, fsFound |-> 0],
              api |-> [hsGlobal |-> FALSE, fsGlobal |-> FALSE, meta |-> "none"]]
  /\ vOut = NoVotes

VotesInit ==
  /\ vPage \in [url : Urls, doc : Doms, api : Apis]
  /\ vOut = NoVotes

\* detectPlatform with no valid cache entry (lines 68-93): the strategies on
\* the page, combined.
RunStrategies ==
  /\ ~vOut.done
  /\ LET v == StrategyVotes(vPage.url, vPage.doc, vPage.api)
     IN  vOut' = [done |-> TRUE, url |-> v.url, dom |-> v.dom, api |-> v.api,
                  value |-> combineDetectionStrategies(v.url, v.dom, v.api,
                                                       getUserOverride)]
  /\ UNCHANGED <<vPage, dLog, dSince, managerVars, combineVars, injectVars, adapterVars>>

MaxDetects == 3   \* detectPlatform calls per run

\* dLog before any call.  ran: the strategies were run (no cache hit).
\* onPage: what the strategies give on the page as it is at the call.
NoDetectLog == [calls |-> 0, at |-> 0, ran |-> FALSE, value |-> "none", onPage |-> "none"]

\* dSince before any call.  About the time before the call in dLog: the last
\* strategy run (run*), the last return of a platform (ret*), and whether
\* clearCache() was called between that run / that return and the call
\* (runCleared / retCleared).  cleared: clearCache() was called since the call.
NoDetectHistory ==
  [runValue |-> "none", runAt |-> 0, retValue |-> "none", retAt |-> 0,
   runCleared |-> FALSE, retCleared |-> FALSE, cleared |-> FALSE]

DetectIdle == dLog = NoDetectLog /\ dSince = NoDetectHistory

frameDetect == <<mgr, inv, nInv, microQ, calls, nCalls, detectorLoaded, hist,
                 vPage, vOut, combineVars, injectVars, adapterVars>>

\* dSince at the next call.
AtDetectCall ==
  [runValue   |-> IF dLog.ran THEN dLog.value ELSE dSince.runValue,
   runAt      |-> IF dLog.ran THEN dLog.at ELSE dSince.runAt,
   retValue   |-> IF Truthy(dLog.value) THEN dLog.value ELSE dSince.retValue,
   retAt      |-> IF Truthy(dLog.value) THEN dLog.at ELSE dSince.retAt,
   runCleared |-> IF dLog.ran THEN dSince.cleared
                  ELSE dSince.runCleared \/ dSince.cleared,
   retCleared |-> IF Truthy(dLog.value) THEN dSince.cleared
                  ELSE dSince.retCleared \/ dSince.cleared,
   cleared    |-> FALSE]

\* One PlatformDetector.detectPlatform() call on the page as it is at the call,
\* given by the votes of the three strategies on it.
DetectCall ==
  /\ dLog.calls < MaxDetects
  /\ \E pg \in [url : Votes, dom : Votes, api : Votes] :
       LET r == detectPlatform(Cur, pg)
       IN  /\ det' = r.s.d
           /\ dLog' = [calls |-> dLog.calls + 1, at |-> now, ran |-> ~isCacheValid(det),
                       value |-> r.v,
                       onPage |-> combineDetectionStrategies(pg.url, pg.dom, pg.api,
                                                             getUserOverride)]
           /\ dSince' = AtDetectCall
  /\ UNCHANGED <<now, frameDetect>>

\* PlatformDetector.clearCache() is called.
ClearCacheCall ==
  /\ det' = clearCache
  /\ dSince' = [dSince EXCEPT !.cleared = TRUE]
  /\ UNCHANGED <<dLog, now, frameDetect>>

\* A minute passes.
Tick ==
  /\ now < MaxTime
  /\ now' = now + 1
  /\ UNCHANGED <<det, dLog, dSince, frameDetect>>

DetectNext ==
  \/ DetectCall
  \/ ClearCacheCall
  \/ Tick

(***************************************************************************)
(* FreeScoutAdapter.extractThread (src/adapters/freescoutAdapter.js        *)
(* 47-102).  A thread item is the set of type classes it carries and what  *)
(* its .thread-content child is: absent ("none"), blank ("empty") or       *)
(* holding text ("text").  A message is its role, the label the content    *)
(* starts with and the index of the item it was built from (0 for the      *)
(* fallback message).                                                      *)
(***************************************************************************)
MaxItems == 3   \* thread items on the page

ThreadClasses == {"customer", "message", "note"}
ThreadItems == [classes : SUBSET ThreadClasses, content : {"none", "empty", "text"}]
ThreadPages == [items : UNION {[1..n -> ThreadItems] : n \in 0..MaxItems},
                stray : BOOLEAN]    \* a div.thread-content with text outside every item

\* The if / else-if chain on item.classList, lines 65-81.
roleOf(item) ==
  IF "customer" \in item.classes THEN "user"
  ELSE IF "message" \in item.classes THEN "assistant"
  ELSE IF "note" \in item.classes THEN "system"
  ELSE "none"

labelOf(item) ==
  IF "customer" \in item.classes THEN "Customer"
  ELSE IF "message" \in item.classes THEN "Agent"
  ELSE IF "note" \in item.classes THEN "Internal Note"
  ELSE "none"

\* The forEach over the thread items: an item without .thread-content or
\* without a type class adds nothing.
RECURSIVE threadMessages(_, _)
threadMessages(items, i) ==
  IF i > Len(items) THEN <<>>
  ELSE LET it == items[i]
           rest == threadMessages(items, i + 1)
       IN  IF it.content = "none" \/ roleOf(it) = "none"
             THEN rest
             ELSE <<[role |-> roleOf(it), label |-> labelOf(it), item |-> i]>> \o rest

\* extractFallbackContent: the non-blank texts of every div.thread-content
\* of the document, joined; null ("none") when there is none.
extractFallbackContent(pg) ==
  IF pg.stray \/ \E i \in 1..Len(pg.items) : pg.items[i].content = "text"
    THEN "text" ELSE "none"

FreeScoutExtractThread(pg) ==
  LET messages == threadMessages(pg.items, 1)
  IN  IF messages # <<>> THEN messages
      ELSE IF extractFallbackContent(pg) # "none"
        THEN <<[role |-> "user", label |-> "none", item |-> 0]>>
      ELSE <<>>

NoThread == [done |-> FALSE, messages |-> <<>>]
ThreadIdle == tPage = [items |-> <<>>, stray |-> FALSE] /\ tOut = NoThread
ThreadInit == tPage \in ThreadPages /\ tOut = NoThread

ExtractThreadCall ==
  /\ ~tOut.done
  /\ tOut' = [done |-> TRUE, messages |-> FreeScoutExtractThread(tPage)]
  /\ UNCHANGED <<tPage, customerVars, lifeVars, utilVars, combineVars, injectVars, managerVars,
                 detectVars>>

(***************************************************************************)
(* extractCustomerInfo of the two adapters (platformAdapter.js 253-267,    *)
(* 397-437; freescoutAdapter.js 176-196; helpscoutAdapter.js 706-749).     *)
(* A string is a sequence of tokens: the characters "a", "&", "<", "'" of  *)
(* the page and the entities the escaping produces.  A value of a bag is a *)
(* string or an array of values; a bag is a function from its keys.        *)
(***************************************************************************)
MaxStr == 2   \* characters of a string on the page

Chars == {"a", "&", "<", "'"}
Strings == UNION {[1..n -> Chars] : n \in 0..MaxStr}
OptStrings == {[has |-> FALSE, s |-> <<>>]} \cup {[has |-> TRUE, s |-> x] : x \in Strings}

Str(x) == [t |-> "string", s |-> x]
Arr(xs) == [t |-> "array", items |-> xs]

\* The replace chain of PlatformAdapter.sanitizeText on one character.
escapeChar(c) ==
  CASE c = "&" -> "&amp;"
    [] c = "<" -> "&lt;"
    [] c = ">" -> "&gt;"
    [] c = "\"" -> "&quot;"
    [] c = "'" -> "&#x27;"
    [] OTHER -> c

\* PlatformAdapter.sanitizeText (the empty string is returned as it is).
sanitizeText(text) == [i \in 1..Len(text) |-> escapeChar(text[i])]

\* PlatformAdapter.sanitizeObject on one value and on an object.
RECURSIVE sanitizeValue(_)
sanitizeValue(v) ==
  IF v.t = "string" THEN Str(sanitizeText(v.s))
  ELSE Arr([i \in 1..Len(v.items) |-> sanitizeValue(v.items[i])])

sanitizeObject(obj) == [k \in DOMAIN obj |-> sanitizeValue(obj[k])]

\* HTMLSanitizer.sanitize on text of these characters (src/unnamed/part_000
\* 48-86): no dangerous pattern, markdown or line break occurs; the text is
\* parsed as HTML and serialized again (parseAndSanitize), which escapes "&"
\* and a "<" that opens no tag and leaves the apostrophe; "<" before a letter
\* opens a tag, which never closes (no ">") and is lost with all that follows.
RECURSIVE parseAndSanitize(_, _)
parseAndSanitize(html, i) ==
  IF i > Len(html) THEN <<>>
  ELSE IF html[i] = "<" /\ i < Len(html) /\ html[i + 1] = "a" THEN <<>>
  ELSE <<(CASE html[i] = "&" -> "&amp;" [] html[i] = "<" -> "&lt;" [] OTHER -> html[i])>>
       \o parseAndSanitize(html, i + 1)

HTMLSanitizer_sanitize(html) == parseAndSanitize(html, 1)

\* Object.keys(customerInfo).length > 0 ? customerInfo : null
BagOrNull(bag) == IF DOMAIN bag = {} THEN [isNull |-> TRUE, bag |-> bag]
                  ELSE [isNull |-> FALSE, bag |-> bag]

\* The keys of b overwrite those of a (assignment to an existing key,
\* Object.assign).
Assign(a, b) == [k \in DOMAIN a \cup DOMAIN b |-> IF k \in DOMAIN b THEN b[k] ELSE a[k]]

EmptyBag == [k \in {} |-> Str(<<>>)]
Field(k, opt, v) == IF opt THEN [x \in {k} |-> v] ELSE EmptyBag

\* FreeScout page: the WordPress widget (absent, or its Tags label cloud) and
\* the customer name element of the conversation header.
FsCustomerPages ==
  [adapter : {"freescout"}, widget : BOOLEAN,
   tags : UNION {[1..n -> Strings] : n \in 0..1}, name : OptStrings]

\* Help Scout page: the customer name of the cached appData, a customer
\* property of window.appData.conversationView and a property of the sidebar.
HsCustomerPages ==
  [adapter : {"helpscout"}, cachedName : OptStrings, property : OptStrings,
   sidebar : OptStrings]

\* FreeScoutAdapter.extractPlatformCustomerInfo: extractWordPressData when the
\* widget is there, then extractNativeFreeScoutData.
extractPlatformCustomerInfo(pg) ==
  BagOrNull(Assign(
    Field("crmTags", pg.widget, Arr([i \in 1..Len(pg.tags) |-> Str(pg.tags[i])])),
    Field("name", pg.name.has, Str(pg.name.s))))

\* PlatformAdapter.extractCustomerInfo (inherited by FreeScoutAdapter).
BaseExtractCustomerInfo(pg) ==
  LET rawInfo == extractPlatformCustomerInfo(pg)
  IN  IF rawInfo.isNull THEN rawInfo
      ELSE [isNull |-> FALSE, bag |-> sanitizeObject(rawInfo.bag)]

\* HelpScoutAdapter.extractCustomerInfo, which replaces the inherited method.
HsExtractCustomerInfo(pg) ==
  BagOrNull(Assign(Assign(
    Field("name", pg.cachedName.has, Str(pg.cachedName.s)),
    Field("plan", pg.property.has, Str(pg.property.s))),
    Field("sidebar_label", pg.sidebar.has, Str(HTMLSanitizer_sanitize(pg.sidebar.s)))))

\* adapter.extractCustomerInfo(); the manager's facade hands the value on.
extractCustomerInfo(pg) ==
  IF pg.adapter = "freescout" THEN BaseExtractCustomerInfo(pg)
  ELSE HsExtractCustomerInfo(pg)

NoCustomerPage == [adapter |-> "none"]
NoCustomerInfo == [done |-> FALSE, isNull |-> TRUE, bag |-> EmptyBag]
CustomerIdle == ciPage = NoCustomerPage /\ ciOut = NoCustomerInfo
CustomerInit == ciPage \in FsCustomerPages \cup HsCustomerPages /\ ciOut = NoCustomerInfo

ExtractCustomerInfoCall ==
  /\ ~ciOut.done
  /\ LET r == extractCustomerInfo(ciPage)
     IN  ciOut' = [done |-> TRUE, isNull |-> r.isNull, bag |-> r.bag]
  /\ UNCHANGED <<ciPage, threadVars, lifeVars, utilVars, combineVars, injectVars, managerVars,
                 detectVars>>

(***************************************************************************)
(* The life of one adapter instance on its page: construction and          *)
(* initialize() as PlatformManager.loadAdapter runs them, the page's       *)
(* changes, extractThread() and cleanup() (helpscoutAdapter.js 15-234,     *)
(* 926-936; freescoutAdapter.js 47-53, 535-563; platformAdapter.js         *)
(* 64-85, 297-349, 503-515).                                               *)
(*                                                                         *)
(* The conversation data of the page (window.appData) and its thread       *)
(* container element are numbered: the host replaces one by the next, 0 is *)
(* "not there".  A continuation that follows an await of a resolved promise *)
(* is run in the step that resolves it.                                    *)
(***************************************************************************)
MaxVer == 2            \* conversations the host shows one after the other
maxInitAttempts == 10  \* HelpScoutAdapter constructor
cacheTimeout == 5      \* PlatformAdapter._cacheTimeout, in seconds

InitRuns == 1..2   \* HelpScoutAdapter.initialize runs: the constructor's and loadAdapter's

NoAdapter ==
  [kind |-> "none", wait |-> [i \in InitRuns |-> "idle"], initializationAttempts |-> 0,
   observer |-> 0, nObservers |-> 0, appDataCache |-> 0, elementCache |-> 0,
   elementAge |-> 0, cleaned |-> FALSE]

\* The page: whether the host shell (#wrap, #mailbox, the editor) is there,
\* the conversation data and the thread container it shows, the mutation
\* observers connected and the event listeners registered by the adapter, and
\* history: whether a callback of the adapter ran after its cleanup().
Hosts == [shell : BOOLEAN, data : 0..1, dom : 0..1, observers : {{}}, listeners : {0},
          late : {FALSE}]

NoHost == [shell |-> FALSE, data |-> 0, dom |-> 0, observers |-> {}, listeners |-> 0,
           late |-> FALSE]

NoExtract == [done |-> FALSE, source |-> "none", returned |-> 0, current |-> 0]

World == [ad |-> ad, host |-> host]

\* PlatformAdapter.clearCache.
clearElementCache(w) == [w EXCEPT !.ad.elementCache = 0, !.ad.elementAge = 0]

\* HelpScoutAdapter.cacheAppData.
cacheAppData(w) ==
  IF w.host.data > 0 THEN [w EXCEPT !.ad.appDataCache = w.host.data] ELSE w

\* HelpScoutAdapter.setupMutationObserver: the previous observer of this
\* adapter is disconnected, a new one observes document.body.
setupMutationObserver(w) ==
  LET id == w.ad.nObservers + 1
  IN  [w EXCEPT !.host.observers = (@ \ {w.ad.observer}) \cup {id},
                !.ad.observer = id, !.ad.nObservers = id]

\* HelpScoutAdapter.setupEventListeners: one listener on window, one on document.
setupEventListeners(w) == [w EXCEPT !.host.listeners = @ + 2]

\* HelpScoutAdapter.initialize after `await this.waitForHelpScoutApp()`.
afterWaitForApp(w, i) ==
  [setupEventListeners(cacheAppData(setupMutationObserver(w))) EXCEPT !.ad.wait[i] = "done"]

\* The indicators checkApp looks for.
appDetected(h) == h.data > 0 \/ h.dom > 0 \/ h.shell

\* A checkApp that only resolves on an indicator.
checkApp_NoTimeout(w, i) ==
  LET n  == w.ad.initializationAttempts + 1
      w1 == [w EXCEPT !.ad.initializationAttempts = n]
  IN  IF appDetected(w.host) /\ n < maxInitAttempts
        THEN afterWaitForApp(w1, i)
        ELSE [w1 EXCEPT !.ad.wait[i] = "timer"]

\* checkApp of waitForHelpScoutApp, for initialize run i.
checkApp(w, i) ==
  LET n  == w.ad.initializationAttempts + 1
      w1 == [w EXCEPT !.ad.initializationAttempts = n]
  IN  IF (appDetected(w.host) /\ n < maxInitAttempts) \/ n >= maxInitAttempts
        THEN afterWaitForApp(w1, i)
        ELSE [w1 EXCEPT !.ad.wait[i] = "timer"]

\* FreeScoutAdapter: PlatformAdapter.initialize with platformInitialize and
\* setupFreeScoutObservers; the observer is held by no field of the adapter.
FsInitialize(w) ==
  LET w1 == clearElementCache(w)
      id == w1.ad.nObservers + 1
  IN  IF w1.host.dom > 0
        THEN [w1 EXCEPT !.host.observers = @ \cup {id}, !.ad.nObservers = id]
        ELSE w1

\* `new Adapter()` and `await this.adapter.initialize()` of loadAdapter
\* (platformManager.js 129-147); the HelpScoutAdapter constructor calls
\* initialize() itself.
loadAdapterOn(w, kind) ==
  LET w0 == [w EXCEPT !.ad.kind = kind]
  IN  IF kind = "helpscout" THEN checkApp(checkApp(w0, 1), 2) ELSE FsInitialize(w0)

\* An observer callback that leaves the caches alone.
onMutation_KeepsCaches(w, conversationChanged) ==
  IF w.host.observers = {} THEN w
  ELSE [w EXCEPT !.host.late = @ \/ w.ad.cleaned]

\* The callback of a mutation observer of the adapter: HelpScoutAdapter
\* re-reads the page data when the mutation concerns the thread container,
\* FreeScoutAdapter clears the element cache.
onMutation(w, conversationChanged) ==
  IF w.host.observers = {} THEN w
  ELSE LET w1 == [w EXCEPT !.host.late = @ \/ w.ad.cleaned]
       IN  IF w.ad.kind = "helpscout"
             THEN IF conversationChanged THEN cacheAppData(clearElementCache(w1)) ELSE w1
             ELSE clearElementCache(w1)

\* The listener of 'helpscout:conversation:loaded'.
onConversationLoaded(w) ==
  IF w.host.listeners = 0 THEN w
  ELSE cacheAppData(clearElementCache([w EXCEPT !.host.late = @ \/ w.ad.cleaned]))

\* A querySelector whose entries never expire.
querySelectorContainer_NeverExpires(w) ==
  IF w.ad.elementCache > 0
    THEN [w |-> w, element |-> w.ad.elementCache]
  ELSE IF w.host.dom > 0
    THEN [w |-> [w EXCEPT !.ad.elementCache = w.host.dom, !.ad.elementAge = 0],
          element |-> w.host.dom]
  ELSE [w |-> w, element |-> 0]

\* PlatformAdapter.querySelector over the thread container selector.
querySelectorContainer(w) ==
  IF w.ad.elementCache > 0 /\ w.ad.elementAge < cacheTimeout
    THEN [w |-> w, element |-> w.ad.elementCache]
  ELSE IF w.host.dom > 0
    THEN [w |-> [w EXCEPT !.ad.elementCache = w.host.dom, !.ad.elementAge = 0],
          element |-> w.host.dom]
  ELSE [w |-> w, element |-> 0]

\* HelpScoutAdapter.extractThread: which conversation the messages are taken
\* from (lines 206-234).
HsExtractThread(w) ==
  IF w.ad.appDataCache > 0
    THEN [w |-> w, source |-> "appData", returned |-> w.ad.appDataCache]
  ELSE IF w.host.data > 0
    THEN [w |-> [w EXCEPT !.ad.appDataCache = w.host.data],
          source |-> "appData", returned |-> w.host.data]
  ELSE LET q == querySelectorContainer(w)
       IN  IF q.element > 0
             THEN [w |-> q.w, source |-> "dom", returned |-> q.element]
             ELSE [w |-> q.w, source |-> "dom", returned |-> w.host.dom]

\* FreeScoutAdapter.extractThread: this.querySelectorAll('.thread-item', false).
FsExtractThread(w) == [w |-> w, source |-> "dom", returned |-> w.host.dom]

\* HelpScoutAdapter.cleanup / PlatformAdapter.cleanup.
cleanupAdapter(w) ==
  LET w1 == clearElementCache([w EXCEPT !.ad.cleaned = TRUE])
  IN  IF w.ad.kind = "helpscout"
        THEN [w1 EXCEPT !.host.observers = @ \ {w.ad.observer},
                        !.ad.observer = 0, !.ad.appDataCache = 0]
        ELSE w1

\* History: the last call of the cached query interface of the adapter.
NoQuery == [op |-> "none", had |-> 0, age |-> 0, current |-> 0, returned |-> 0,
            afterClear |-> FALSE, afterMiss |-> FALSE]

LifeIdle == ad = NoAdapter /\ host = NoHost /\ xOut = NoExtract /\ qOut = NoQuery
LifeInit == ad = NoAdapter /\ host \in Hosts /\ xOut = NoExtract /\ qOut = NoQuery

frameOther == <<threadVars, customerVars, utilVars, combineVars, injectVars, managerVars, detectVars>>
frameLife == <<qOut, frameOther>>

InstallWorld(w) == ad' = w.ad /\ host' = w.host

LoadAdapter ==
  /\ ad.kind = "none"
  /\ \E kind \in {"freescout", "helpscout"} : InstallWorld(loadAdapterOn(World, kind))
  /\ UNCHANGED <<xOut, frameLife>>

\* The 500 ms timer of waitForHelpScoutApp fires for initialize run i.
PollTimer(i) ==
  /\ ad.wait[i] = "timer"
  /\ InstallWorld(checkApp(World, i))
  /\ UNCHANGED <<xOut, frameLife>>

\* The host swaps the conversation data of window.appData, without touching
\* the thread container.
HostDataChanges ==
  /\ host.data < MaxVer
  /\ host' = [host EXCEPT !.data = @ + 1]
  /\ UNCHANGED <<ad, xOut, frameLife>>

\* The host replaces the thread container; the connected observers are told.
\* conversationChanged is what the observer callback computes from the
\* mutation records (helpscoutAdapter.js 128-132).
HostDomChanges ==
  /\ host.dom < MaxVer
  /\ \E conversationChanged \in BOOLEAN :
       InstallWorld(onMutation([World EXCEPT !.host.dom = @ + 1], conversationChanged))
  /\ UNCHANGED <<xOut, frameLife>>

\* The page dispatches 'helpscout:conversation:loaded' on window.
HostEvent ==
  /\ InstallWorld(onConversationLoaded(World))
  /\ UNCHANGED <<xOut, frameLife>>

ExtractThreadOnPage ==
  /\ ad.kind # "none"
  /\ LET r == IF ad.kind = "helpscout" THEN HsExtractThread(World) ELSE FsExtractThread(World)
     IN  /\ InstallWorld(r.w)
         /\ xOut' = [done |-> TRUE, source |-> r.source, returned |-> r.returned,
                     current |-> IF r.source = "appData" THEN host.data ELSE host.dom]
         /\ qOut' = IF ad.kind = "helpscout" /\ r.source = "dom" THEN NoQuery ELSE qOut
  /\ UNCHANGED frameOther

CleanupCall ==
  /\ ad.kind # "none" /\ ~ad.cleaned
  /\ InstallWorld(cleanupAdapter(World))
  /\ UNCHANGED <<xOut, frameLife>>

\* A second passes.
SecondPasses ==
  /\ ad.elementCache > 0 /\ ad.elementAge < cacheTimeout
  /\ ad' = [ad EXCEPT !.elementAge = @ + 1]
  /\ UNCHANGED <<host, xOut, frameLife>>

\* A caller uses adapter.querySelector(selector) with the cache (useCache
\* defaults to true); the record keeps what the cache held before the call.
QuerySelectorCall ==
  /\ ad.kind # "none"
  /\ LET q == querySelectorContainer(World)
     IN  /\ InstallWorld(q.w)
         /\ qOut' = [op |-> "query", had |-> ad.elementCache,
                     age |-> ad.elementAge, current |-> host.dom,
                     returned |-> q.element,
                     afterClear |-> qOut.op = "clearCache",
                     afterMiss |-> qOut.op = "query" /\ qOut.returned = 0]
  /\ UNCHANGED <<xOut, frameOther>>

\* A caller uses adapter.clearCache().
AdapterClearCache ==
  /\ ad.kind # "none"
  /\ InstallWorld(clearElementCache(World))
  /\ qOut' = [NoQuery EXCEPT !.op = "clearCache"]
  /\ UNCHANGED <<xOut, frameOther>>

LifeNext ==
  \/ QuerySelectorCall
  \/ AdapterClearCache
  \/ LoadAdapter
  \/ \E i \in InitRuns : PollTimer(i)
  \/ HostDataChanges
  \/ HostDomChanges
  \/ HostEvent
  \/ ExtractThreadOnPage
  \/ CleanupCall
  \/ SecondPasses

\* History of the observer callbacks: how many batches of mutation records
\* were delivered, how many editorChanged events the adapter emitted and how
\* many listener callbacks ran, and what the last batch was.
NoObserve ==
  [batches |-> 0, emitted |-> 0, delivered |-> 0, listeners |-> 0,
   clicks |-> 0, reclicks |-> 0, clickTimers |-> 0, clickEmits |-> 0,
   last |-> [told |-> FALSE, conversationChanged |-> FALSE, editorChanged |-> FALSE,
             hadElement |-> FALSE]]

ObserveIdle == ob = NoObserve
\* The manager has registered its forwarding callback for editorChanged
\* (platformManager.js 171-190).
ObserveInit == ob = [NoObserve EXCEPT !.listeners = 1]

MaxBatches == 2   \* batches of mutation records delivered per run

\* HelpScoutAdapter.emit(event): every callback registered for the event runs.
emit(o) == [o EXCEPT !.emitted = @ + 1, !.delivered = @ + o.listeners]

\* The second half of the observer callback of HelpScoutAdapter: one
\* editorChanged event when some record targets the editor or its container.
onEditorMutation(w, o, editorChanged) ==
  IF w.host.observers # {} /\ w.ad.kind = "helpscout" /\ editorChanged THEN emit(o) ELSE o

\* The page changes below document.body and the browser delivers one batch
\* of mutation records; the two flags are what the callback computes from
\* the records.
ObserverBatch ==
  /\ ad.kind # "none" /\ ob.batches < MaxBatches
  /\ \E conversationChanged \in BOOLEAN, editorChanged \in BOOLEAN :
       /\ InstallWorld(onMutation(World, conversationChanged))
       /\ ob' = [onEditorMutation(World, ob, editorChanged) EXCEPT
                   !.batches = @ + 1,
                   !.last = [told |-> host.observers # {},
                             conversationChanged |-> conversationChanged,
                             editorChanged |-> editorChanged,
                             hadElement |-> ad.elementCache > 0]]
  /\ UNCHANGED <<xOut, qOut, threadVars, customerVars, combineVars, injectVars, managerVars,
                 detectVars, safeVars, sanitizeVars, docsVars, retryVars, toolVars, appVars>>

\* The adapter on a page whose DOM mutates while callers extract the thread.
ObserveNext ==
  \/ LoadAdapter
  \/ \E i \in InitRuns : PollTimer(i)
  \/ HostDataChanges
  \/ HostDomChanges
  \/ HostEvent
  \/ ExtractThreadOnPage
  \/ CleanupCall
  \/ ObserverBatch

\* The adapter while it is loaded and waits for the host app: no caller
\* uses it yet.
WaitNext ==
  \/ LoadAdapter
  \/ \E i \in InitRuns : PollTimer(i)
  \/ HostDataChanges
  \/ HostDomChanges
  \/ HostEvent
  \/ CleanupCall

(***************************************************************************)
(* HTMLSanitizer (src/unnamed/part_000).                                   *)
(*                                                                         *)
(* An html string is a sequence of pieces, each piece standing for the     *)
(* characters it is written with.  No regular expression of the sanitizer  *)
(* matches across two pieces or inside one, other than as listed in        *)
(* PatternOf, and the pieces hold no "*" and no "`".                       *)
(***************************************************************************)
LinkMd       == "[t](http://x)"
LinkPlain    == "<a href=\"http://x\">t</a>"
LinkParsed   == "<a href=\"http://x\" rel=\"noopener noreferrer\" target=\"_blank\">t</a>"
LinkMdOut    == "<a href=\"http:&#x2F;&#x2F;x\" target=\"_blank\" rel=\"noopener noreferrer\">t</a>"
LinkMdParsed == "<a href=\"http://x\" target=\"_blank\" rel=\"noopener noreferrer\">t</a>"

AllowedPieces == {"a", "\n", "<br>", "<b>", "</b>", LinkMd, LinkPlain, LinkParsed, LinkMdOut,
                  LinkMdParsed}
Pieces == AllowedPieces \cup {"<img>", "onclick=", "javascript:"}

Width(t) ==
  CASE t \in {"a", "\n"} -> 1
    [] t = "<b>" -> 3
    [] t \in {"<br>", "</b>"} -> 4
    [] t = "<img>" -> 5
    [] t = "onclick=" -> 8
    [] t = "javascript:" -> 11
    [] t = LinkMd -> 13
    [] t = LinkPlain -> 24
    [] t \in {LinkParsed, LinkMdParsed} -> 66
    [] t = LinkMdOut -> 76

ALLOWED_TAGS == {"p", "br", "div", "span", "strong", "b", "em", "i", "u", "a", "ul", "ol",
                 "li", "blockquote", "code", "pre", "h1", "h2", "h3", "h4", "h5", "h6"}

\* the element a piece makes when the string is assigned to innerHTML
TagOf(t) ==
  CASE t = "<b>" -> "b"
    [] t = "<br>" -> "br"
    [] t = "<img>" -> "img"
    [] t \in {LinkPlain, LinkParsed, LinkMdOut, LinkMdParsed} -> "a"
    [] OTHER -> "none"

\* DANGEROUS_PATTERNS by index: 1 script element, 2 on\w+\s*=, 3 javascript:,
\* 4 data:text/html, 5 <iframe, 6 <embed, 7 <object
DANGEROUS_PATTERNS == 1..7
PatternOf(t) == CASE t = "onclick=" -> 2 [] t = "javascript:" -> 3 [] OTHER -> 0

RECURSIVE offsetOf(_, _)
offsetOf(html, i) == IF i = 1 THEN 0 ELSE offsetOf(html, i - 1) + Width(html[i - 1])

\* RegExp.prototype.test of a regular expression with the g flag: the search starts at
\* lastIndex; a match leaves lastIndex at its end, a failure leaves 0
regexTest(p, html, lastIndex) ==
  LET hits == {i \in 1..Len(html) : PatternOf(html[i]) = p /\ offsetOf(html, i) >= lastIndex}
  IN  IF hits = {} THEN [found |-> FALSE, lastIndex |-> 0]
      ELSE LET i == CHOOSE j \in hits : \A k \in hits : j <= k
           IN  [found |-> TRUE, lastIndex |-> offsetOf(html, i) + Width(html[i])]

\* the loop over DANGEROUS_PATTERNS of isSafe, from pattern p on
RECURSIVE testPatterns(_, _, _)
testPatterns(p, html, li) ==
  IF p \notin DANGEROUS_PATTERNS THEN [dangerous |-> FALSE, lastIndex |-> li]
  ELSE LET t == regexTest(p, html, li[p])
           li2 == [li EXCEPT ![p] = t.lastIndex]
       IN  IF t.found THEN [dangerous |-> TRUE, lastIndex |-> li2]
           ELSE testPatterns(p + 1, html, li2)

isSafe(html, li) ==
  LET r == testPatterns(1, html, li)
  IN  [safe |-> ~r.dangerous
                /\ \A i \in 1..Len(html) : TagOf(html[i]) \in ALLOWED_TAGS \cup {"none"},
       lastIndex |-> r.lastIndex]

removeDangerousPatterns(html) == SelectSeq(html, LAMBDA t : PatternOf(t) = 0)

\* temp.innerHTML = html; sanitizeNode(temp); temp.innerHTML, from piece i on inside
\* depth open <b> elements: an end tag without its element is dropped, an element left
\* open is closed at the end, an element outside ALLOWED_TAGS gives way to its text, an
\* http link gets rel and target (sanitizeAttributes), an attribute is written decoded
RECURSIVE parseAndSanitizeFrom(_, _, _)
parseAndSanitizeFrom(html, i, depth) ==
  IF i > Len(html) THEN [k \in 1..depth |-> "</b>"]
  ELSE LET t == html[i]
       IN  CASE t = "<b>" -> <<t>> \o parseAndSanitizeFrom(html, i + 1, depth + 1)
             [] t = "</b>" -> IF depth = 0 THEN parseAndSanitizeFrom(html, i + 1, 0)
                              ELSE <<t>> \o parseAndSanitizeFrom(html, i + 1, depth - 1)
             [] TagOf(t) \notin ALLOWED_TAGS \cup {"none"} ->
                  parseAndSanitizeFrom(html, i + 1, depth)
             [] t = LinkPlain -> <<LinkParsed>> \o parseAndSanitizeFrom(html, i + 1, depth)
             [] t = LinkMdOut -> <<LinkMdParsed>> \o parseAndSanitizeFrom(html, i + 1, depth)
             [] OTHER -> <<t>> \o parseAndSanitizeFrom(html, i + 1, depth)

\* [text](url) becomes a link whose href is escapeHtml(url): "/" is written "&#x2F;"
convertMarkdownToHTML(text) ==
  [i \in 1..Len(text) |-> IF text[i] = LinkMd THEN LinkMdOut ELSE text[i]]

convertLineBreaks(text) ==
  [i \in 1..Len(text) |-> IF text[i] = "\n" THEN "<br>" ELSE text[i]]

finalValidation(html) == SelectSeq(html, LAMBDA t : PatternOf(t) \notin {1, 2})

sanitize(html) ==
  IF html = <<>> THEN <<>>
  ELSE finalValidation(convertLineBreaks(convertMarkdownToHTML(
         parseAndSanitizeFrom(removeDangerousPatterns(html), 1, 0))))

\* ---- calls on the shared class (SpecSafe)
MaxSafeLen == 2   \* pieces of an argument of isSafe
SafePieces == {"a", "<b>", "<img>", "onclick=", "javascript:"}
SafeInputs == UNION {[1..n -> SafePieces] : n \in 0..MaxSafeLen}

NoSafeCall == [op |-> "none", html |-> <<>>, safe |-> FALSE, out |-> <<>>]
NoSafeRef == [has |-> FALSE, html |-> <<>>, safe |-> FALSE]
SafeIdle == reLastIndex = [p \in DANGEROUS_PATTERNS |-> 0] /\ sRef = NoSafeRef
            /\ sCur = NoSafeCall

frameSafe == <<sanitizeVars, docsVars, retryVars, helperVars, coreVars>>

IsSafeCall ==
  \E html \in SafeInputs, keep \in BOOLEAN :
    LET r == isSafe(html, reLastIndex)
    IN  /\ reLastIndex' = r.lastIndex
        /\ sCur' = [op |-> "isSafe", html |-> html, safe |-> r.safe, out |-> <<>>]
        /\ sRef' = IF keep /\ ~sRef.has THEN [has |-> TRUE, html |-> html, safe |-> r.safe]
                   ELSE sRef
        /\ UNCHANGED frameSafe

\* sanitize: String.prototype.replace with each of DANGEROUS_PATTERNS leaves its
\* lastIndex at 0; sanitize('') returns before that
SanitizeCall ==
  \E html \in SafeInputs :
    /\ reLastIndex' = IF html = <<>> THEN reLastIndex ELSE [p \in DANGEROUS_PATTERNS |-> 0]
    /\ sCur' = [op |-> "sanitize", html |-> html, safe |-> FALSE, out |-> sanitize(html)]
    /\ UNCHANGED <<sRef, frameSafe>>

SafeNext == IsSafeCall \/ SanitizeCall

\* ---- sanitize once and twice (SpecSanitize)
MaxPieces == 3   \* pieces of an argument of sanitize
SanitizeInputs == UNION {[1..n -> Pieces] : n \in 0..MaxPieces}
NoSanitized == [done |-> FALSE, once |-> <<>>, twice |-> <<>>]
SanitizeIdle == zHtml = <<>> /\ zOut = NoSanitized
SanitizeInit == zHtml \in SanitizeInputs /\ zOut = NoSanitized

SanitizeTwice ==
  /\ ~zOut.done
  /\ zOut' = [done |-> TRUE, once |-> sanitize(zHtml), twice |-> sanitize(sanitize(zHtml))]
  /\ UNCHANGED <<zHtml, safeVars, docsVars, retryVars, helperVars, coreVars>>

(***************************************************************************)
(* The documentation cache of the background script                        *)
(* (src/unnamed/part_001 and src/unnamed/part_002, two versions of it).    *)
(* Time is counted in units of 12 hours.  A message handler runs up to its *)
(* next await; the handlers of two messages interleave at the awaits.      *)
(***************************************************************************)
oneDayInMs == 2     \* 24 * 60 * 60 * 1000 ms, in units of 12 hours
MaxClock == 4       \* last value of Date.now() of a run; the first is 1
DocUrls == {"u1", "u2"}
Scripts == {"part_001", "part_002"}

NoEntry == [docs |-> "none", timestamp |-> 0]
NoRequest == [pc |-> "idle", url |-> "", now |-> 0, fetched |-> FALSE, result |-> "none",
              hit |-> FALSE, afterClear |-> "no"]
NoClear == [pc |-> "idle", keysToRemove |-> {}, overlapped |-> FALSE]
DocsIdle == bg = [script |-> "none", storage |-> [u \in DocUrls |-> NoEntry], now |-> 0,
                  cleared |-> "no"]
            /\ rq = NoRequest /\ cl = NoClear
DocsInit == bg \in [script : Scripts, storage : {[u \in DocUrls |-> NoEntry]}, now : {1},
                    cleared : {"no"}]
            /\ rq = NoRequest /\ cl = NoClear

\* cachedDocs && cachedTimestamp && (now - cachedTimestamp) < oneDayInMs; an empty array
\* is truthy, and so is every time read from the clock
docsCacheValid(entry, t) == entry.docs # "none" /\ t - entry.timestamp < oneDayInMs

\* whether the fetched docs are written to the storage
storesDocs(script, docs) == script = "part_001" \/ docs = "docs"

\* fetchDocsWithCache(url), up to chrome.storage.local.get.  History: afterClear tells
\* whether this is the first request after a clearDocsCache() resolved, and whether a
\* request was under way at some time of that clearDocsCache() ("overlapped")
FetchDocsWithCache ==
  \E url \in DocUrls \cup {""} :
    /\ rq.pc \in {"idle", "done"}
    /\ rq' = IF url = ""
               THEN [NoRequest EXCEPT !.pc = "done", !.result = "[]",
                                      !.afterClear = bg.cleared]
               ELSE [NoRequest EXCEPT !.pc = "get", !.url = url, !.afterClear = bg.cleared]
    /\ bg' = [bg EXCEPT !.cleared = "no"]
    /\ cl' = IF cl.pc = "remove" THEN [cl EXCEPT !.overlapped = TRUE] ELSE cl
    /\ UNCHANGED <<safeVars, sanitizeVars, retryVars, helperVars, coreVars>>

\* the storage answers: a valid entry is returned, otherwise fetchDocs(url) starts
StorageGetReturns ==
  /\ rq.pc = "get"
  /\ LET entry == bg.storage[rq.url]
         valid == docsCacheValid(entry, bg.now)
     IN  rq' = IF valid
                 THEN [rq EXCEPT !.pc = "done", !.now = bg.now, !.result = entry.docs,
                                 !.hit = TRUE]
                 ELSE [rq EXCEPT !.pc = "fetch", !.now = bg.now]
  /\ UNCHANGED <<bg, cl, safeVars, sanitizeVars, retryVars, helperVars, coreVars>>

\* fetchDocs(url) returns the parsed documents, or [] after a failed fetch; the result is
\* written under the time read before the fetch
FetchDocsReturns ==
  \E docs \in {"docs", "[]"} :
    /\ rq.pc = "fetch"
    /\ rq' = [rq EXCEPT !.pc = "done", !.fetched = TRUE, !.result = docs]
    /\ bg' = IF storesDocs(bg.script, docs)
               THEN [bg EXCEPT !.storage[rq.url] = [docs |-> docs, timestamp |-> rq.now]]
               ELSE bg
    /\ UNCHANGED <<cl, safeVars, sanitizeVars, retryVars, helperVars, coreVars>>

\* clearDocsCache(), up to chrome.storage.local.get(null)
ClearDocsCache ==
  /\ cl.pc \in {"idle", "done"}
  /\ cl' = [pc |-> "remove",
            keysToRemove |-> {u \in DocUrls : bg.storage[u].docs # "none"},
            overlapped |-> rq.pc \notin {"idle", "done"}]
  /\ UNCHANGED <<bg, rq, safeVars, sanitizeVars, retryVars, helperVars, coreVars>>

\* the keys read are removed and clearDocsCache() resolves
ClearRemoves ==
  /\ cl.pc = "remove"
  /\ cl' = [cl EXCEPT !.pc = "done"]
  /\ bg' = [bg EXCEPT !.storage = [u \in DocUrls |->
                                     IF u \in cl.keysToRemove THEN NoEntry ELSE @[u]],
                      !.cleared = IF cl.overlapped THEN "overlapped" ELSE "alone"]
  /\ UNCHANGED <<rq, safeVars, sanitizeVars, retryVars, helperVars, coreVars>>

DocsTick ==
  /\ bg.now < MaxClock
  /\ bg' = [bg EXCEPT !.now = @ + 1]
  /\ UNCHANGED <<rq, cl, safeVars, sanitizeVars, retryVars, helperVars, coreVars>>

DocsNext ==
  \/ FetchDocsWithCache
  \/ StorageGetReturns
  \/ FetchDocsReturns
  \/ ClearDocsCache
  \/ ClearRemoves
  \/ DocsTick

(***************************************************************************)
(* PlatformDetector.detectWithRetry (src/platformDetection.js 307-339).    *)
(* The page may change between two attempts.  rt.clock counts the ms spent *)
(* in the timers of the call; at and seen are history: the clock at each   *)
(* detectPlatform() call of the loop and what it returned.                 *)
(***************************************************************************)
maxRetries  == 3      \* default of the parameter maxRetries
detectDelay == 1000   \* default of the parameter delay, in ms
MaxRetryCalls == 3    \* detectWithRetry calls per run

NoRetry == [pc |-> "idle", n |-> 0, i |-> 0, clock |-> 0, at |-> <<>>, seen |-> <<>>,
            result |-> "unset", calls |-> 0]
RetryIdle == rt = NoRetry
RetryInit == rt = NoRetry

\* `if (i < maxRetries - 1)`: a timer follows iteration i
sleepsAfter_EveryAttempt(i, n) == i < n

sleepsAfter(i, n) == i < n - 1

\* the for loop from its test for iteration r.i up to the next await or the return
RECURSIVE retryLoop(_, _, _)
retryLoop(r, d, pg) ==
  IF ~(r.i < r.n) THEN [r |-> [r EXCEPT !.pc = "done", !.result = "none"], d |-> d]
  ELSE LET x  == detectPlatform([Cur EXCEPT !.d = d], pg)
           r1 == [r EXCEPT !.at = Append(@, r.clock), !.seen = Append(@, x.v)]
       IN  IF Truthy(x.v) THEN [r |-> [r1 EXCEPT !.pc = "done", !.result = x.v], d |-> x.s.d]
           ELSE IF sleepsAfter(r.i, r.n) THEN [r |-> [r1 EXCEPT !.pc = "sleep"], d |-> x.s.d]
           ELSE retryLoop([r1 EXCEPT !.i = @ + 1], x.s.d, pg)

frameRetry == <<mgr, inv, nInv, microQ, calls, nCalls, now, detectorLoaded, hist, combineVars,
                injectVars, detectVars, threadVars, customerVars, lifeVars, safeVars,
                sanitizeVars, docsVars, helperVars>>

\* detectWithRetry(n) up to `await this.waitForDOM()`; ready: document.readyState is
\* 'complete' or 'interactive'
DetectWithRetryCall ==
  \E n \in 0..maxRetries, ready \in BOOLEAN :
    /\ rt.pc \in {"idle", "done"} /\ rt.calls < MaxRetryCalls
    /\ rt' = [NoRetry EXCEPT !.pc = IF ready THEN "attempt" ELSE "waitDom", !.n = n,
                             !.calls = rt.calls + 1]
    /\ UNCHANGED <<det, frameRetry>>

DomContentLoaded ==
  /\ rt.pc = "waitDom"
  /\ rt' = [rt EXCEPT !.pc = "attempt"]
  /\ UNCHANGED <<det, frameRetry>>

\* the call resumes after an await and runs the loop
RetryAttempt ==
  /\ rt.pc = "attempt"
  /\ \E pg \in Pages : LET x == retryLoop(rt, det, pg)
                       IN  rt' = x.r /\ det' = x.d
  /\ UNCHANGED frameRetry

RetryTimerFires ==
  /\ rt.pc = "sleep"
  /\ rt' = [rt EXCEPT !.pc = "attempt", !.i = @ + 1, !.clock = @ + detectDelay]
  /\ UNCHANGED <<det, frameRetry>>

\* PlatformDetector.clearCache() between two steps of the call
RetryClearCache ==
  /\ det # clearCache
  /\ det' = clearCache
  /\ UNCHANGED <<rt, frameRetry>>

RetryNext ==
  \/ DetectWithRetryCall
  \/ DomContentLoaded
  \/ RetryAttempt
  \/ RetryTimerFires
  \/ RetryClearCache

(***************************************************************************)
(* The shared utilities of PlatformAdapter (src/adapters/platformAdapter.js *)
(* 10-22, 381-392, 465-479, 503-515): debounce, logError, cleanup.          *)
(*                                                                         *)
(* The page's timers are records; a timer that is due fires before the     *)
(* clock moves on.  The function passed to debounce is one of three kinds: *)
(* "plain" returns, "throws" throws, "rearms" calls debounce on the same   *)
(* adapter with the same key and delay and a plain function.               *)
(***************************************************************************)
DebounceKeys   == {"k1", "k2"}
DebounceDelays == 1..2
FuncKinds      == {"plain", "throws", "rearms"}
adapterMaxErrors == 10   \* PlatformAdapter._maxErrors
MaxDebounce    == 3    \* debounce calls made from outside per run
MaxToolClock   == 3    \* last value of the clock of a run
MaxLogCalls    == 1    \* logError calls per run
MaxCleanups    == 1    \* cleanup calls per run

NoTools ==
  [timers |-> {}, debounceTimers |-> [k \in DebounceKeys |-> 0], nextId |-> 1,
   clock |-> 0, calls |-> 0, special |-> FALSE, ran |-> {}, twice |-> FALSE,
   cache |-> FALSE, errors |-> <<>>, logged |-> 0, logCalls |-> 0, base |-> 0,
   cleanups |-> 0]

\* The error log of an adapter that has logged n errors since its last
\* cleanup(), the errors being numbered in order of occurrence.
LoggedBefore(n) == [NoTools EXCEPT !.errors = [i \in 1..n |-> i], !.logged = n]

ToolIdle == ut = NoTools
ToolInit == ut \in {LoggedBefore(0), LoggedBefore(adapterMaxErrors)}

\* clearTimeout(id): a timer that fired or was cleared before is not there.
clearTimeout(timers, id) == {t \in timers : t.id # id}

\* PlatformAdapter.debounce(func, delay, key).
debounce(u, func, delay, key) ==
  LET kept == IF u.debounceTimers[key] # 0
                THEN clearTimeout(u.timers, u.debounceTimers[key])
                ELSE u.timers
      timer == [id |-> u.nextId, key |-> key, func |-> func, delay |-> delay,
                made |-> u.clock, due |-> u.clock + delay, epoch |-> u.cleanups]
  IN  [u EXCEPT !.timers = kept \cup {timer}, !.debounceTimers[key] = timer.id,
                !.nextId = @ + 1]

\* The callback debounce hands to setTimeout: func(), then the entry of the
\* key is deleted; a func that throws leaves the callback before the delete.
debounceCallback(u, t) ==
  LET u0 == [u EXCEPT !.timers = @ \ {t},
                      !.twice = @ \/ \E r \in u.ran : r.id = t.id,
                      !.ran = @ \cup {[id |-> t.id, key |-> t.key,
                                       onTime |-> u.clock = t.made + t.delay,
                                       latest |-> u.debounceTimers[t.key] = t.id,
                                       afterCleanup |-> t.epoch < u.cleanups]}]
  IN  CASE t.func = "plain"  -> [u0 EXCEPT !.debounceTimers[t.key] = 0]
        [] t.func = "throws" -> u0
        [] t.func = "rearms" ->
             [debounce(u0, "plain", t.delay, t.key) EXCEPT !.debounceTimers[t.key] = 0]

\* PlatformAdapter.logError: push, then shift when longer than _maxErrors.
logError(u) ==
  LET pushed == Append(u.errors, u.logged + 1)
  IN  [u EXCEPT !.logged = @ + 1, !.logCalls = @ + 1,
                !.errors = IF Len(pushed) > adapterMaxErrors THEN Tail(pushed) ELSE pushed]

\* PlatformAdapter.cleanup: clearCache, clearTimeout of every timer of the
\* map, the map and the error log emptied.
cleanupTools(u) ==
  [u EXCEPT !.cache = FALSE,
            !.timers = {t \in @ : \A k \in DebounceKeys : u.debounceTimers[k] # t.id},
            !.debounceTimers = [k \in DebounceKeys |-> 0],
            !.errors = <<>>, !.base = u.logged, !.cleanups = @ + 1]

frameTool == <<safeVars, sanitizeVars, docsVars, retryVars, observeVars, appVars, coreVars>>

DebounceCall ==
  /\ ut.calls < MaxDebounce
  /\ \E func \in FuncKinds, delay \in DebounceDelays, key \in DebounceKeys :
       ut' = [debounce(ut, func, delay, key) EXCEPT !.calls = @ + 1,
                                                    !.special = @ \/ func # "plain"]
  /\ UNCHANGED frameTool

\* The timer that is due first fires.
DebounceTimerFires ==
  /\ \E t \in ut.timers :
       /\ t.due <= ut.clock
       /\ \A o \in ut.timers : <<t.due, t.id>> = <<o.due, o.id>> \/ t.due < o.due
                               \/ (t.due = o.due /\ t.id < o.id)
       /\ ut' = debounceCallback(ut, t)
  /\ UNCHANGED frameTool

LogErrorCall ==
  /\ ut.logCalls < MaxLogCalls
  /\ ut' = logError(ut)
  /\ UNCHANGED frameTool

\* A cached query stores what it found.
ToolCacheStore ==
  /\ ~ut.cache
  /\ ut' = [ut EXCEPT !.cache = TRUE]
  /\ UNCHANGED frameTool

ToolCleanupCall ==
  /\ ut.cleanups < MaxCleanups
  /\ ut' = cleanupTools(ut)
  /\ UNCHANGED frameTool

ToolTick ==
  /\ ut.clock < MaxToolClock
  /\ \A t \in ut.timers : t.due > ut.clock
  /\ ut' = [ut EXCEPT !.clock = @ + 1]
  /\ UNCHANGED frameTool

ToolNext ==
  \/ DebounceCall
  \/ DebounceTimerFires
  \/ LogErrorCall
  \/ ToolCacheStore
  \/ ToolCleanupCall
  \/ ToolTick

(***************************************************************************)
(* HelpScoutAdapter.extractFromAppData (src/adapters/helpscoutAdapter.js   *)
(* 329-386) on the conversation object of this.appDataCache.               *)
(*                                                                         *)
(* A thread record keeps the fields the function reads; a value that may   *)
(* be undefined is a sequence, <<>> for undefined and <<r>> for r.  A body *)
(* is a sequence of pieces, as for HTMLSanitizer.                          *)
(***************************************************************************)
MaxThreads == 2   \* records of conversation.threads

ThreadTypes  == {"message", "note", "customer"}
ThreadStates == {"published", "draft", "deleted"}
AuthorTypes  == {"customer", "user"}
Bodies       == {<<>>, <<"a">>, <<"<img>">>}

ThreadRecords ==
  [type : ThreadTypes, state : ThreadStates, createdByType : AuthorTypes,
   customerEmail : BOOLEAN, body : Bodies]

\* conversation.threads is a non-empty array; conversation.thread is a record
\* or is not there.
Conversations ==
  [threads : UNION {[1..n -> ThreadRecords] : n \in 1..MaxThreads},
   thread  : {<<>>} \cup {<<r>> : r \in {t \in ThreadRecords :
                                             /\ t.type = "message" /\ t.body = <<"a">>
                                             /\ t.state = "published"}}]

NoAppCall == [conversation |-> [threads |-> <<>>, thread |-> <<>>], done |-> FALSE, threw |-> FALSE,
              messages |-> <<>>]

AppIdle == ax = NoAppCall
AppInit == \E c \in Conversations : ax = [NoAppCall EXCEPT !.conversation = c]

\* const threads = conversation.threads || conversation.thread ?
\*   [conversation.thread] : [];   the conditional binds weaker than ||.
threadsOf(conversation) ==
  IF Len(conversation.threads) >= 0 \/ conversation.thread # <<>>
    THEN <<conversation.thread>>
    ELSE <<>>

\* The role expression of the forEach callback.
threadRole(thread) ==
  IF thread.createdByType = "customer" \/ thread.type = "customer" \/ thread.customerEmail
    THEN "user" ELSE "assistant"

\* The forEach callback on one record: the messages it pushes.
messagesOfThread(thread) ==
  IF thread.type = "note" THEN <<>>
  ELSE IF thread.state \in {"draft", "deleted"} THEN <<>>
  ELSE LET messageText == sanitize(thread.body)
       IN  IF messageText # <<>>
             THEN <<[role |-> threadRole(thread), text |-> messageText]>>
             ELSE <<>>

RECURSIVE forEachThread(_, _)
forEachThread(threads, i) ==
  IF i > Len(threads) THEN <<>>
  ELSE messagesOfThread(threads[i][1]) \o forEachThread(threads, i + 1)

\* extractFromAppData: reading a property of undefined throws a TypeError.
extractFromAppData(conversation) ==
  LET threads == threadsOf(conversation)
  IN  IF \E i \in 1..Len(threads) : threads[i] = <<>>
        THEN [threw |-> TRUE, messages |-> <<>>]
        ELSE [threw |-> FALSE, messages |-> forEachThread(threads, 1)]

ExtractFromAppDataCall ==
  /\ ~ax.done
  /\ LET r == extractFromAppData(ax.conversation)
     IN  ax' = [ax EXCEPT !.done = TRUE, !.threw = r.threw, !.messages = r.messages]
  /\ UNCHANGED <<safeVars, sanitizeVars, docsVars, retryVars, toolVars, observeVars, coreVars>>

(***************************************************************************)
(* Reply-button clicks on a Help Scout page (helpscoutAdapter.js 188-201,  *)
(* 391-428, 901-909).  Every setupEventListeners() call registered one     *)
(* click listener on document; each of them starts a 500 ms timer whose    *)
(* callback looks for the editor and emits editorReady when it finds one.  *)
(* getReplyEditor() clicks the Reply button itself when it sees no editor, *)
(* and that click reaches the same listeners; its 800 ms wait is run in    *)
(* the step of the callback.                                               *)
(***************************************************************************)
MaxClicks   == 1   \* clicks of the user on the Reply button per run
MaxReclicks == 1   \* clicks getReplyEditor makes on the Reply button per run

\* What getReplyEditor() finds: the editor at once, the editor after it
\* clicked the Reply button, nothing after it clicked, or nothing.
EditorLookups == {"editor", "clickedEditor", "clickedNone", "none"}

\* The click listeners on document: one of the two listeners of every
\* setupEventListeners() call.
clickListeners(h) == h.listeners \div 2

\* The click listeners run for one click on the Reply button:
\* handleReplyButtonClick starts one timer per listener.
onReplyButtonClick(w, o) == [o EXCEPT !.clickTimers = @ + clickListeners(w.host)]

\* The callback of one handleReplyButtonClick timer.
onReplyTimer(w, o, found) ==
  LET o1 == [o EXCEPT !.clickTimers = @ - 1]
      o2 == IF found \in {"clickedEditor", "clickedNone"}
              THEN [onReplyButtonClick(w, o1) EXCEPT !.reclicks = @ + 1]
              ELSE o1
  IN  IF found \in {"editor", "clickedEditor"}
        THEN [emit(o2) EXCEPT !.clickEmits = @ + 1]
        ELSE o2

\* The user clicks the Reply button.
ReplyButtonClick ==
  /\ ad.kind = "helpscout" /\ ob.clicks < MaxClicks
  /\ ob' = [onReplyButtonClick(World, ob) EXCEPT !.clicks = @ + 1, !.clickEmits = 0]
  /\ UNCHANGED <<lifeVars, threadVars, customerVars, combineVars, injectVars, managerVars,
                 detectVars, safeVars, sanitizeVars, docsVars, retryVars, toolVars, appVars>>

\* A 500 ms timer of handleReplyButtonClick fires.
ReplyTimerFires ==
  /\ ob.clickTimers > 0
  /\ \E found \in EditorLookups :
       /\ found \in {"clickedEditor", "clickedNone"} => ob.reclicks < MaxReclicks
       /\ ob' = onReplyTimer(World, ob, found)
  /\ UNCHANGED <<lifeVars, threadVars, customerVars, combineVars, injectVars, managerVars,
                 detectVars, safeVars, sanitizeVars, docsVars, retryVars, toolVars, appVars>>

\* The adapter from its construction to its cleanup on a page whose Reply
\* button is clicked.
ClickNext ==
  \/ LoadAdapter
  \/ \E i \in InitRuns : PollTimer(i)
  \/ HostDataChanges
  \/ HostDomChanges
  \/ HostEvent
  \/ CleanupCall
  \/ ReplyButtonClick
  \/ ReplyTimerFires

(***************************************************************************)
(* Specifications                                                          *)
(***************************************************************************)
HelperIdle == ToolIdle /\ ObserveIdle /\ AppIdle
UtilIdle == SafeIdle /\ SanitizeIdle /\ DocsIdle /\ RetryIdle /\ HelperIdle
AdapterIdle == ThreadIdle /\ CustomerIdle /\ LifeIdle /\ UtilIdle

InitCombine == CombineInit /\ InjectIdle /\ ManagerIdle /\ DetectIdle /\ VotesIdle /\ AdapterIdle
SpecCombine == InitCombine /\ [][Combine]_vars

InitInject == CombineIdle /\ InjectInit /\ ManagerIdle /\ DetectIdle /\ VotesIdle /\ AdapterIdle
SpecInject == InitInject /\ [][InjectNext]_vars

Init == CombineIdle /\ InjectIdle /\ ManagerInit /\ DetectIdle /\ VotesIdle /\ AdapterIdle
Next == ManagerNext
Spec == Init /\ [][Next]_vars

InitDetect == CombineIdle /\ InjectIdle /\ ManagerIdle /\ DetectIdle /\ VotesIdle /\ AdapterIdle
SpecDetect == InitDetect /\ [][DetectNext]_vars

InitVotes == CombineIdle /\ InjectIdle /\ ManagerIdle /\ DetectIdle /\ VotesInit /\ AdapterIdle
SpecVotes == InitVotes /\ [][RunStrategies]_vars

InitThread == CombineIdle /\ InjectIdle /\ ManagerIdle /\ DetectIdle /\ VotesIdle /\ ThreadInit
              /\ CustomerIdle /\ LifeIdle /\ UtilIdle
SpecThread == InitThread /\ [][ExtractThreadCall]_vars

InitCustomer == CombineIdle /\ InjectIdle /\ ManagerIdle /\ DetectIdle /\ VotesIdle /\ ThreadIdle
                /\ CustomerInit /\ LifeIdle /\ UtilIdle
SpecCustomer == InitCustomer /\ [][ExtractCustomerInfoCall]_vars

InitLife == CombineIdle /\ InjectIdle /\ ManagerIdle /\ DetectIdle /\ VotesIdle /\ ThreadIdle
            /\ CustomerIdle /\ LifeInit /\ UtilIdle
SpecLife == InitLife /\ [][LifeNext]_vars

\* The 500 ms timers of waitForHelpScoutApp fire.
InitWait == CombineIdle /\ InjectIdle /\ ManagerIdle /\ DetectIdle /\ VotesIdle /\ ThreadIdle
            /\ CustomerIdle /\ UtilIdle /\ LifeInit
SpecWait == InitWait /\ [][WaitNext]_vars /\ \A i \in InitRuns : WF_vars(PollTimer(i))

InitObserve == CombineIdle /\ InjectIdle /\ ManagerIdle /\ DetectIdle /\ VotesIdle /\ ThreadIdle
               /\ CustomerIdle /\ SafeIdle /\ SanitizeIdle /\ DocsIdle /\ RetryIdle /\ ToolIdle
               /\ LifeInit /\ ObserveInit /\ AppIdle
SpecObserve == InitObserve /\ [][ObserveNext]_vars

InitClick == CombineIdle /\ InjectIdle /\ ManagerIdle /\ DetectIdle /\ VotesIdle /\ ThreadIdle
             /\ CustomerIdle /\ SafeIdle /\ SanitizeIdle /\ DocsIdle /\ RetryIdle /\ ToolIdle
             /\ LifeInit /\ ObserveInit /\ AppIdle
SpecClick == InitClick /\ [][ClickNext]_vars

InitAppData == CombineIdle /\ InjectIdle /\ ManagerIdle /\ DetectIdle /\ VotesIdle /\ ThreadIdle
               /\ CustomerIdle /\ LifeIdle /\ SafeIdle /\ SanitizeIdle /\ DocsIdle /\ RetryIdle
               /\ ToolIdle /\ ObserveIdle /\ AppInit
SpecAppData == InitAppData /\ [][ExtractFromAppDataCall]_vars

InitSafe == CombineIdle /\ InjectIdle /\ ManagerIdle /\ DetectIdle /\ VotesIdle /\ ThreadIdle
            /\ CustomerIdle /\ LifeIdle /\ SafeIdle /\ SanitizeIdle /\ DocsIdle /\ RetryIdle /\ HelperIdle
SpecSafe == InitSafe /\ [][SafeNext]_vars

InitSanitize == CombineIdle /\ InjectIdle /\ ManagerIdle /\ DetectIdle /\ VotesIdle /\ ThreadIdle
                /\ CustomerIdle /\ LifeIdle /\ SafeIdle /\ SanitizeInit /\ DocsIdle /\ RetryIdle /\ HelperIdle
SpecSanitize == InitSanitize /\ [][SanitizeTwice]_vars

InitDocs == CombineIdle /\ InjectIdle /\ ManagerIdle /\ DetectIdle /\ VotesIdle /\ ThreadIdle
            /\ CustomerIdle /\ LifeIdle /\ SafeIdle /\ SanitizeIdle /\ DocsInit /\ RetryIdle /\ HelperIdle
SpecDocs == InitDocs /\ [][DocsNext]_vars

InitTools == CombineIdle /\ InjectIdle /\ ManagerIdle /\ DetectIdle /\ VotesIdle /\ ThreadIdle
             /\ CustomerIdle /\ LifeIdle /\ SafeIdle /\ SanitizeIdle /\ DocsIdle /\ RetryIdle
             /\ ToolInit /\ ObserveIdle /\ AppIdle
SpecTools == InitTools /\ [][ToolNext]_vars

InitRetry == CombineIdle /\ InjectIdle /\ ManagerIdle /\ DetectIdle /\ VotesIdle /\ ThreadIdle
             /\ CustomerIdle /\ LifeIdle /\ SafeIdle /\ SanitizeIdle /\ DocsIdle /\ RetryInit /\ HelperIdle
SpecRetry == InitRetry /\ [][RetryNext]_vars
             /\ WF_vars(DomContentLoaded) /\ WF_vars(RetryAttempt) /\ WF_vars(RetryTimerFires)


(***************************************************************************)
(* Claims                                                                  *)
(***************************************************************************)
Range(seq) == {seq[i] : i \in 1..Len(seq)}

\* What Manager.injectReply resolves to for the adapter call of SpecInject.
ManagerInjectReplyResult == DispatchReturn("injectReply", FALSE, jRet)

\* C5 (as claimed): Manager.injectReply resolves to a boolean, true exactly when
\* the reply was put into the editor, false when it was not.
C5_InjectReplyReportsOutcome ==
  jPc = "done" =>
    /\ ManagerInjectReplyResult \in {"true", "false"}
    /\ (ManagerInjectReplyResult = "true") <=> (jDoc = "reply")

\* C6 (as claimed): with a Slate editor, injectReply returns true only when one
\* of the three strategies succeeded, and false when none did.
C6_SlateFailureReported ==
  (jAdapter = "helpscout" /\ jPc = "done" /\ jEditor = "slate") =>
    ((jRet = "true") <=> (\E i \in 1..Len(jOutcome) : jOutcome[i] = "ok"))

\* C7: the Slate strategies are attempted in the order API, paste, input; a
\* strategy is attempted only after every earlier one did not succeed, the first
\* success ends the attempts, and no strategy is attempted twice.
C7_StrategyOrder ==
  /\ Len(jOutcome) = Len(jTried)
  /\ \A i \in 1..Len(jTried) :
       jTried[i] = <<StrategyApi, StrategyPaste, StrategyInput>>[i]
  /\ \A i \in 1..Len(jTried) : \A k \in 1..Len(jTried) : i # k => jTried[i] # jTried[k]
  /\ \A i \in 1..Len(jOutcome) :
       jOutcome[i] = "ok" => (i = Len(jOutcome) /\ jPc \in {"slateReturned", "done"})

C7_Witness_AllThreeTried ==
  /\ jPc = "done" /\ jTried = <<StrategyApi, StrategyPaste, StrategyInput>>
  /\ jOutcome[3] = "ok"

\* C8: for an editor with a Slate document model no execution of
\* HelpScoutAdapter.injectReply assigns the reply to the editor's innerHTML; the
\* innerHTML overwrite happens only for a contentEditable editor without one.
C8_NoRawOverwriteOfSlate ==
  (jAdapter = "helpscout" /\ "reply" \in Range(jHtmlWrites)) =>
    (~HasSlateAttr(jEditor) /\ IsContentEditable(jEditor))

C8_Witness_SlateAllFailed ==
  /\ jAdapter = "helpscout" /\ jEditor = "slate" /\ jPc = "done"
  /\ Len(jTried) = 3 /\ \A i \in 1..3 : jOutcome[i] # "ok"
  /\ "reply" \notin Range(jHtmlWrites)

\* C9: whenever a user override is present, combineDetectionStrategies returns it,
\* whatever the URL, DOM and API votes are.
C9_OverrideWins ==
  (cOut # "pending" /\ cIn.override # "none") => cOut = cIn.override

C9_Witness_OverrideAgainstAll ==
  /\ cOut = "freescout" /\ cIn.override = "freescout"
  /\ cIn.url = "helpscout" /\ cIn.dom = "helpscout" /\ cIn.api = "helpscout"

\* Weighted vote count of the claim: URL 1, DOM 1, API 2.
C10_Count(p) ==
  (IF cIn.url = p THEN 1 ELSE 0) + (IF cIn.dom = p THEN 1 ELSE 0)
  + 2 * (IF cIn.api = p THEN 1 ELSE 0)

\* C10: without an override the platform with the strictly larger weighted count
\* (URL 1, DOM 1, API 2) is returned, and none when the counts are equal.
C10_WeightedMajority ==
  (cOut # "pending" /\ cIn.override = "none") =>
    /\ C10_Count("helpscout") > C10_Count("freescout") => cOut = "helpscout"
    /\ C10_Count("freescout") > C10_Count("helpscout") => cOut = "freescout"
    /\ C10_Count("freescout") = C10_Count("helpscout") => cOut = "none"

C10_Witness_ApiTie ==
  /\ cOut = "none" /\ cIn.override = "none"
  /\ cIn.api = "helpscout" /\ cIn.url = "freescout" /\ cIn.dom = "freescout"

\* ---- the manager (Spec)
\* Invocations of _performInitialization that are between their start and their
\* return: detecting, loading the adapter, or waiting in the retry back-off.
ActiveInvs == {i \in InvIds : inv[i].pc \in {"detecting", "loading", "loaded", "backoff"}}

\* The invocation a promise finally resolves with (retries return the promise
\* of the next invocation).
RECURSIVE ChainEnd(_, _)
ChainEnd(f, p) == IF f[p].pc = "chained" THEN ChainEnd(f, f[p].next) ELSE p

\* C1: without reset(), at most one detection/adapter-load sequence is in flight
\* at any time, back-off included; every caller of initialize() that is still
\* waiting waits for that one sequence; and as long as no attempt has failed at
\* most one adapter has been constructed, exactly one once initialize() has
\* resolved to true.
C1_SingleInFlightAttempt ==
  hist.resets = 0 =>
    /\ Cardinality(ActiveInvs) <= 1
    /\ \A c \in CallIds :
         (calls[c].pc = "awaitInit" /\ Resolved(inv, calls[c].promise) = "pending") =>
           \A i \in ActiveInvs : ChainEnd(inv, calls[c].promise) = i
    /\ hist.initErrors = 0 =>
         /\ hist.constructed <= 1
         /\ nInv <= 1
         /\ \A c \in CallIds :
              (calls[c].op = "initialize" /\ calls[c].pc = "done"
               /\ calls[c].result = "true") => hist.constructed = 1

C1_Witness_SecondCallJoins ==
  /\ hist.resets = 0 /\ hist.initErrors = 0
  /\ calls[1].op = "initialize" /\ calls[2].op = "initialize"
  /\ calls[1].promise = 1 /\ calls[2].promise = 1
  /\ calls[1].pc = "done" /\ calls[2].pc = "done"
  /\ calls[1].result = "true" /\ calls[2].result = "true"
  /\ nInv = 1 /\ hist.constructed = 1

\* The safe defaults as the claim lists them.
C2_Default(methodName) ==
  IF methodName = "extractThread" THEN "[]"
  ELSE IF methodName \in {"extractCustomerInfo", "getCurrentUser", "getReplyEditor"}
    THEN "null"
  ELSE "false"

\* C2: a facade call that has finished either returned what the adapter method
\* returned or went through the catch block and resolved to the safe default
\* of its method; it went through the catch block whenever initialization
\* resolved to false.
C2_FacadeResolvesToSafeDefault ==
  \A c \in CallIds :
    (calls[c].op \in FacadeMethods /\ calls[c].pc = "done") =>
      /\ calls[c].path \in {"caught", "returned"}
      /\ calls[c].path = "caught" => calls[c].result = C2_Default(calls[c].op)
      /\ (calls[c].promise # 0 /\ Resolved(inv, calls[c].promise) = "false") =>
           calls[c].path = "caught"

C2_Witness_TwoDefaults ==
  /\ calls[1].op = "extractThread" /\ calls[1].pc = "done"
  /\ calls[1].path = "caught" /\ calls[1].result = "[]"
  /\ calls[2].op = "injectReply" /\ calls[2].pc = "done"
  /\ calls[2].path = "caught" /\ calls[2].result = "false"

\* C3 (as claimed): no adapter is cleaned up twice, reset() cleans up the adapter
\* it finds exactly once, and when the promise of reset() resolves `platform`
\* holds the result of a detection run made after that reset began.
C3_ResetRedetects ==
  /\ \A a \in InvIds : hist.cleanups[a] <= 1
  /\ \A c \in CallIds :
       calls[c].op = "reset" =>
         /\ calls[c].cleaned # 0 => hist.cleanups[calls[c].cleaned] = 1
         /\ (detectorLoaded /\ calls[c].pc = "done") =>
              calls[c].obs.epoch >= calls[c].epoch

\* C3 (amended): as C3, except that while a later reset() has begun and has not
\* re-detected yet, the promise of the earlier reset() resolves with `platform`
\* cleared (null), never with a value detected before the earlier reset.
C3_ResetRedetectsUnlessResetAgain ==
  /\ \A a \in InvIds : hist.cleanups[a] <= 1
  /\ \A c \in CallIds :
       calls[c].op = "reset" =>
         /\ calls[c].cleaned # 0 => hist.cleanups[calls[c].cleaned] = 1
         /\ (detectorLoaded /\ calls[c].pc = "done") =>
              \/ calls[c].obs.epoch >= calls[c].epoch
              \/ /\ calls[c].obs.resets > calls[c].epoch
                 /\ calls[c].obs.platform = "none" /\ calls[c].obs.epoch = -1

C3_Witness_ResetAfterInit ==
  /\ calls[1].op = "initialize" /\ calls[1].result = "true"
  /\ calls[2].op = "reset" /\ calls[2].pc = "done" /\ calls[2].cleaned = 1
  /\ hist.cleanups[1] = 1 /\ calls[2].obs.epoch = 1
  /\ Truthy(calls[2].obs.platform)

\* Attempts of a run that have failed (thrown into the catch block).
FailedInvs ==
  {i \in InvIds : \/ inv[i].pc \in {"backoff", "chained"}
                  \/ inv[i].pc \in {"settling", "done"} /\ inv[i].result = "false"}

\* C4: without reset(), while every attempt made so far has thrown, at most
\* maxErrors attempts have been started, every failed attempt has incremented
\* the error counter and emitted one error event, a retry is pending only
\* below maxErrors errors, and initialize() has resolved to nothing but false.
C4_BoundedRetries ==
  (hist.resets = 0 /\ hist.initOk = 0 /\ hist.initNoPlatform = 0) =>
    /\ nInv <= maxErrors
    /\ hist.initErrors = Cardinality(FailedInvs)
    /\ mgr.errorCount = hist.errorEvents
    /\ hist.errorEvents >= hist.initErrors
    /\ \A i \in InvIds : inv[i].pc = "backoff" => mgr.errorCount < maxErrors
    /\ \A c \in CallIds :
         (calls[c].op = "initialize" /\ calls[c].pc = "done") =>
           (calls[c].result = "false" /\ mgr.errorCount >= maxErrors)

C4_Witness_ThreeAttemptsThenFalse ==
  /\ hist.resets = 0 /\ hist.initOk = 0 /\ hist.initNoPlatform = 0
  /\ detectorLoaded /\ nInv = maxErrors /\ hist.initErrors = maxErrors
  /\ calls[1].op = "initialize" /\ calls[1].pc = "done" /\ calls[1].result = "false"

\* ---- the detector (SpecCombine)
\* C11 (as claimed): with no override, an API vote for one platform against a
\* URL vote and a DOM vote that both favour the other platform returns the
\* platform of the API vote.
C11_ApiOutvotesUrlDomPair ==
  (/\ cOut # "pending" /\ cIn.override = "none"
   /\ cIn.api \in Platforms /\ cIn.url \in Platforms
   /\ cIn.url = cIn.dom /\ cIn.url # cIn.api) => cOut = cIn.api

\* ---- detectPlatform calls (SpecDetect)
\* C12 (as claimed): a call made less than 5 minutes after a call that returned
\* a platform, with no clearCache() in between, returns that platform without
\* running the strategies; any other call runs them.
C12_CachedAfterAnyReturn ==
  dLog.calls >= 1 =>
    LET fresh == /\ Truthy(dSince.retValue) /\ ~dSince.retCleared
                 /\ dLog.at - dSince.retAt < CACHE_DURATION
    IN  /\ fresh => (~dLog.ran /\ dLog.value = dSince.retValue)
        /\ ~fresh => dLog.ran

\* C12 (amended): the 5 minutes count from the call that ran the strategies,
\* not from a later call served from the cache.  A call made less than 5
\* minutes after the last strategy run, when that run returned a platform and
\* clearCache() was not called since, returns that platform without running
\* the strategies, whatever the page is now; any other call runs them.
C12_CachedAfterStrategyRun ==
  dLog.calls >= 1 =>
    LET fresh == /\ Truthy(dSince.runValue) /\ ~dSince.runCleared
                 /\ dLog.at - dSince.runAt < CACHE_DURATION
    IN  /\ fresh => (~dLog.ran /\ dLog.value = dSince.runValue)
        /\ ~fresh => dLog.ran

\* A run, a cache hit later, and a new run exactly 5 minutes after the first.
C12_Witness_RerunAfterFiveMinutes ==
  /\ dLog.calls = 3 /\ dLog.ran
  /\ Truthy(dSince.runValue) /\ ~dSince.runCleared
  /\ dLog.at - dSince.runAt = CACHE_DURATION
  /\ dSince.retAt > dSince.runAt /\ dSince.retValue = dSince.runValue

C14_Classified == {i \in 1..Len(tPage.items) :
                     /\ tPage.items[i].classes # {}
                     /\ tPage.items[i].content # "none"}

\* The messages follow the classified items one to one, in document order.
C14_OnePerItemInOrder ==
  /\ Len(tOut.messages) = Cardinality(C14_Classified)
  /\ \A k \in 1..Len(tOut.messages) : tOut.messages[k].item \in C14_Classified
  /\ \A k \in 1..Len(tOut.messages) : \A l \in 1..Len(tOut.messages) :
       k < l => tOut.messages[k].item < tOut.messages[l].item

\* C14: on a page with classified thread items, extractThread returns one
\* message per classified item, in document order, with role user for a
\* customer item, assistant for an agent message item and user for an
\* internal-note item.
C14_RolesUserAssistantUser ==
  (tOut.done /\ C14_Classified # {}) =>
    /\ C14_OnePerItemInOrder
    /\ \A k \in 1..Len(tOut.messages) :
         LET it == tPage.items[tOut.messages[k].item]
         IN  tOut.messages[k].role =
               IF "customer" \in it.classes THEN "user"
               ELSE IF "message" \in it.classes THEN "assistant"
               ELSE "user"

\* Supporting check for C14: the same statement with the role the code gives
\* an internal note, system.
C14_RolesUserAssistantSystem ==
  (tOut.done /\ C14_Classified # {}) =>
    /\ C14_OnePerItemInOrder
    /\ \A k \in 1..Len(tOut.messages) :
         LET it == tPage.items[tOut.messages[k].item]
         IN  tOut.messages[k].role =
               IF "customer" \in it.classes THEN "user"
               ELSE IF "message" \in it.classes THEN "assistant"
               ELSE "system"

(***************************************************************************)
(* C15  getMetrics() and healthCheck()                                     *)
(***************************************************************************)
\* What the claim says a read leaves alone: the adapter, the platform, the
\* initialized flag, the error counter, the operation and error metrics and
\* the host page (no Reply button click).
C15_Untouched ==
  /\ mgr'.adapter = mgr.adapter
  /\ mgr'.platform = mgr.platform
  /\ mgr'.initialized = mgr.initialized
  /\ mgr'.errorCount = mgr.errorCount
  /\ mgr'.opCount = mgr.opCount
  /\ mgr'.errMetric = mgr.errMetric
  /\ hist'.replyClicks = hist.replyClicks

\* A step of a call of one of the given operations: the step that makes the
\* call or one of its continuations.
C15_StepOf(ops) ==
  \E c \in CallIds : calls'[c] # calls[c] /\ calls'[c].op \in ops

\* C15: no step of a getMetrics() or healthCheck() call changes the adapter,
\* the platform, the initialized flag, the error counter or the operation and
\* error metrics, and none acts on the host page.
C15_ReadsAreSideEffectFree ==
  [][C15_StepOf({"getMetrics", "healthCheck"}) => C15_Untouched]_vars

\* Supporting check for C15: the statement holds for getMetrics() alone.
C15_GetMetricsIsARead ==
  [][C15_StepOf({"getMetrics"}) => C15_Untouched]_vars

(***************************************************************************)
(* C16  the customer-info bag is HTML-escaped                              *)
(***************************************************************************)
\* The strings a value holds, at any depth.
RECURSIVE C16_StringsOf(_)
C16_StringsOf(v) ==
  IF v.t = "string" THEN {v.s}
  ELSE UNION {C16_StringsOf(v.items[i]) : i \in 1..Len(v.items)}

\* A string that has passed through the escaping holds none of the
\* characters the escaping replaces.
C16_Escaped(x) == \A i \in 1..Len(x) : escapeChar(x[i]) = x[i]

C16_BagEscaped(bag) == \A k \in DOMAIN bag : \A x \in C16_StringsOf(bag[k]) : C16_Escaped(x)

\* C16: every string value of the returned customer-info bag, at any depth,
\* is HTML-escaped, for both adapters and for the in-memory and the DOM path.
C16_EveryStringEscaped ==
  (ciOut.done /\ ~ciOut.isNull) => C16_BagEscaped(ciOut.bag)

\* Supporting check for C16: the statement holds for the FreeScout adapter,
\* which inherits the base extractCustomerInfo.
C16_FreeScoutBagEscaped ==
  (ciOut.done /\ ~ciOut.isNull /\ ciPage.adapter = "freescout") => C16_BagEscaped(ciOut.bag)

(***************************************************************************)
(* C17  extractThread() reads the conversation as it is at the call        *)
(***************************************************************************)
\* C17: the messages an extractThread() call returns are those of the
\* conversation the page holds at the time of the call, never those of a
\* conversation cached before the page changed.
C17_ExtractsCurrentConversation ==
  xOut.done => xOut.returned = xOut.current

\* Supporting check for C17: the statement holds for the FreeScout adapter,
\* whose extractThread() queries the document without the element cache.
C17_FreeScoutExtractsCurrent ==
  (xOut.done /\ ad.kind = "freescout") => xOut.returned = xOut.current

(***************************************************************************)
(* C20  nothing of the adapter stays active after cleanup()                *)
(***************************************************************************)
\* C20: once cleanup() has run, no mutation observer of the adapter is
\* connected, no page event listener of the adapter is registered and no
\* callback of the adapter runs on a later DOM mutation or page event, also
\* when cleanup() ran while initialize() was waiting for the host app.
C20_NothingActiveAfterCleanup ==
  ad.cleaned => (host.observers = {} /\ host.listeners = 0 /\ ~host.late)

\* Supporting check for C20: cleanup() does disconnect the observer the Help
\* Scout adapter holds in this.observer at that time.
C20_HeldObserverDisconnected ==
  [][(ad.kind = "helpscout" /\ ~ad.cleaned /\ ad'.cleaned)
       => (ad.observer \notin host'.observers /\ ad'.observer = 0)]_vars

(***************************************************************************)
(* C18  initialize() on an initialized manager                             *)
(***************************************************************************)
\* An initialize() call has resolved true.
C18_ResolvedTrue ==
  \E c \in CallIds :
    calls[c].op = "initialize" /\ calls[c].pc = "done" /\ calls[c].result = "true"

\* C18: once an initialize() call has resolved true (and reset() was not
\* called), the step of a further initialize() call resolves true at once,
\* starts no detection and no _performInitialization run, constructs no
\* adapter and leaves every field of the manager, the metrics and the error
\* counter included, and the detector cache as they were.
C18_FurtherInitializeChangesNothing ==
  [][(/\ hist.resets = 0 /\ C18_ResolvedTrue
      /\ nCalls' = nCalls + 1 /\ calls'[nCalls'].op = "initialize")
       => (/\ calls'[nCalls'].pc = "done" /\ calls'[nCalls'].result = "true"
           /\ mgr' = mgr /\ det' = det /\ inv' = inv /\ nInv' = nInv
           /\ microQ' = microQ /\ hist' = hist)]_vars

\* C18 witness: a second initialize() call, made after the first had resolved
\* true, has resolved true; one adapter was constructed in all.
C18_Witness_FurtherCallAfterTrue ==
  /\ calls[1].op = "initialize" /\ calls[1].pc = "done" /\ calls[1].result = "true"
  /\ calls[2].op = "initialize" /\ calls[2].after
  /\ calls[2].pc = "done" /\ calls[2].result = "true"
  /\ hist.resets = 0 /\ hist.constructed = 1

(***************************************************************************)
(* C19  a page without a platform                                          *)
(***************************************************************************)
\* The continuation of _performInitialization run i after a detection that
\* yielded no platform.
C19_NoPlatformStep(i) ==
  /\ inv[i].pc = "detecting" /\ ~Truthy(inv[i].pending)
  /\ inv'[i].pc # "detecting"

\* C19: when the detection of a _performInitialization run yields no platform,
\* the run returns false: no adapter is constructed, the error counter and the
\* error metrics are not incremented, no error event is emitted, no back-off
\* timer is set and no new run is started.
C19_NoPlatformIsNotAnError ==
  [][\A i \in InvIds :
       C19_NoPlatformStep(i) =>
         /\ inv'[i].pc = "settling" /\ inv'[i].result = "false"
         /\ hist'.constructed = hist.constructed
         /\ mgr'.adapter = mgr.adapter
         /\ mgr'.errorCount = mgr.errorCount /\ mgr'.errMetric = mgr.errMetric
         /\ hist'.errorEvents = hist.errorEvents
         /\ nInv' = nInv
         /\ \A j \in InvIds : inv'[j].pc = "backoff" => inv[j].pc = "backoff"]_vars

\* C19 witness: initialize() has resolved false on a page without a platform;
\* nothing was constructed, counted or emitted.
C19_Witness_FalseWithoutError ==
  /\ calls[1].op = "initialize" /\ calls[1].pc = "done" /\ calls[1].result = "false"
  /\ hist.initNoPlatform = 1 /\ nInv = 1
  /\ hist.constructed = 0 /\ mgr.errorCount = 0 /\ hist.errorEvents = 0

(***************************************************************************)
(* C21: the result of HTMLSanitizer.isSafe depends on its argument only:   *)
(* whenever isSafe is called with the argument of an earlier isSafe call,  *)
(* it returns what that call returned.                                     *)
(***************************************************************************)
C21_EqualInputsEqualResults ==
  (sRef.has /\ sCur.op = "isSafe" /\ sCur.html = sRef.html) => sCur.safe = sRef.safe

\* C21, second half: an argument holding a dangerous pattern is reported unsafe by
\* every isSafe call
C21_DangerousAlwaysUnsafe ==
  (sCur.op = "isSafe" /\ \E i \in 1..Len(sCur.html) : PatternOf(sCur.html[i]) # 0)
    => ~sCur.safe

\* C21, supporting: an isSafe call made while every lastIndex is 0 reports an argument
\* holding a dangerous pattern unsafe
C21_FreshPatternsReportDanger ==
  [][((\A p \in DANGEROUS_PATTERNS : reLastIndex[p] = 0) /\ sCur'.op = "isSafe"
       /\ \E i \in 1..Len(sCur'.html) : PatternOf(sCur'.html[i]) # 0)
      => ~sCur'.safe]_vars

(***************************************************************************)
(* C22: sanitize is idempotent on an argument built from the allowed tags: *)
(* sanitize(sanitize(html)) = sanitize(html).                              *)
(***************************************************************************)
C22_BuiltFromAllowed(html) == \A i \in 1..Len(html) : html[i] \in AllowedPieces

C22_Idempotent ==
  (zOut.done /\ C22_BuiltFromAllowed(zHtml)) => zOut.twice = zOut.once

\* C22, supporting: sanitize is idempotent on an argument built from the allowed tags
\* that holds no markdown link
C22_IdempotentWithoutMarkdownLink ==
  (zOut.done /\ C22_BuiltFromAllowed(zHtml)
     /\ \A i \in 1..Len(zHtml) : zHtml[i] # LinkMd)
    => zOut.twice = zOut.once

(***************************************************************************)
(* C23: after clearDocsCache() has resolved, the next fetchDocsWithCache   *)
(* request, for any URL, goes to the network.                              *)
(***************************************************************************)
C23_NextRequestAfterClearFetches ==
  (rq.pc = "done" /\ rq.afterClear # "no" /\ rq.url # "") => rq.fetched

\* C23, supporting: the same, for a clearDocsCache() during which no request was under
\* way
C23_NextRequestAfterQuietClearFetches ==
  (rq.pc = "done" /\ rq.afterClear = "alone" /\ rq.url # "") => rq.fetched

\* C23, first half: a request is served from the storage, without a fetch, exactly when
\* the storage holds an entry for the URL written under a time less than 24 hours back
C23_ServedFromCacheWhenFresh ==
  [][(rq.pc = "get" /\ rq'.pc # "get")
     => /\ rq'.hit <=> (bg.storage[rq.url].docs # "none"
                         /\ bg.now - bg.storage[rq.url].timestamp < oneDayInMs)
        /\ rq'.hit => (rq'.pc = "done" /\ ~rq'.fetched
                       /\ rq'.result = bg.storage[rq.url].docs)
        /\ ~rq'.hit => rq'.pc = "fetch"]_vars

\* C23, second half: a request that fetched has written what it fetched to the storage
C23_FetchedDocsAreStored ==
  [][(rq.pc = "fetch" /\ rq'.pc = "done")
     => bg'.storage[rq.url] = [docs |-> rq'.result, timestamp |-> rq.now]]_vars

\* C23, supporting: the same for the older script (part_001) and for fetches that
\* returned at least one document
C23_FetchedDocsAreStoredUnlessEmpty ==
  [][(rq.pc = "fetch" /\ rq'.pc = "done" /\ (bg.script = "part_001" \/ rq'.result = "docs"))
     => bg'.storage[rq.url] = [docs |-> rq'.result, timestamp |-> rq.now]]_vars

(***************************************************************************)
(* C24: the wait before the n-th retry of a failed initialization is       *)
(* retryDelay * n: 1000 ms before the first retry, 2000 ms before the      *)
(* second.                                                                 *)
(***************************************************************************)
C24_WaitBeforeRetryIsLinear ==
  \A i \in InvIds : inv[i].retry > 0 => inv[i].waited = retryDelay * inv[i].retry

\* C24, supporting: the same in runs without reset()
C24_WaitIsLinearWithoutReset ==
  hist.resets = 0 => C24_WaitBeforeRetryIsLinear

C24_Witness_SecondRetryAfter2000 ==
  \E i \in InvIds : inv[i].retry = 2 /\ inv[i].waited = 2000 /\ hist.resets = 0

(***************************************************************************)
(* C25: the error counter counts consecutive failures.  In every step,     *)
(* each initialization attempt that fails (the detector is missing or the  *)
(* adapter could not be loaded) and each facade operation that ends in the *)
(* dispatcher's catch block adds one to errorCount; a facade operation     *)
(* whose adapter method returned, and reset(), set it to 0 first; nothing  *)
(* else changes it.  (Steps of healthCheck(), which runs two operations in *)
(* a row, are left out.)                                                   *)
(***************************************************************************)
C25_InitFailed(i) ==
  \/ inv[i].pc = "loaded" /\ ~inv[i].loadOk /\ inv'[i].pc # "loaded"
  \/ inv[i].pc = "idle" /\ inv'[i].pc # "idle" /\ ~detectorLoaded

C25_OpEnded(c, path) ==
  /\ calls'[c].op \in DispatcherMethods
  /\ calls[c].pc # "done" /\ calls'[c].pc = "done" /\ calls'[c].path = path

C25_CountsConsecutiveFailures ==
  [][(\A c \in CallIds : calls'[c].op = "healthCheck" => calls'[c] = calls[c])
     => LET failures == Cardinality({i \in InvIds : C25_InitFailed(i)})
                        + Cardinality({c \in CallIds : C25_OpEnded(c, "caught")})
            zeroed == \/ nCalls' = nCalls + 1 /\ calls'[nCalls'].op = "reset"
                      \/ \E c \in CallIds : C25_OpEnded(c, "returned")
        IN  mgr'.errorCount = (IF zeroed THEN 0 ELSE mgr.errorCount) + failures]_vars

\* C25 witness: without any reset(), the counter is back at 0 after an error, and a
\* facade operation has returned from its adapter method
C25_Witness_SuccessZeroesAfterFailure ==
  /\ hist.resets = 0 /\ hist.errorEvents > 0 /\ mgr.errorCount = 0
  /\ \E c \in CallIds : calls[c].op \in FacadeMethods /\ calls[c].pc = "done"
                        /\ calls[c].path = "returned"

(***************************************************************************)
(* C26: the dispatcher calls an adapter method only after a successful     *)
(* initialization.  A call on a manager that is not initialized first      *)
(* starts or joins initialize(); the method is called (and the operation   *)
(* count goes up by exactly one in that step) only if the manager was      *)
(* initialized at the call or the awaited initialize() resolved true, an   *)
(* adapter is installed and the adapter defines the method; a call that    *)
(* ends otherwise has not called the method and leaves the count alone.    *)
(***************************************************************************)
C26_Dispatched(c) == calls'[c].op \in DispatcherMethods /\ calls'[c] # calls[c]

C26_MethodOnlyAfterInitialization ==
  [][\A c \in CallIds : C26_Dispatched(c) =>
       /\ (calls[c].pc = "idle" /\ ~mgr.initialized)
            => (calls'[c].pc = "awaitInit" /\ calls'[c].promise # 0
                /\ calls'[c].promise = mgr'.initPromise /\ mgr'.opCount = mgr.opCount)
       /\ calls'[c].pc = "awaitMethod"
            => /\ \/ calls[c].pc = "idle" /\ mgr.initialized
                  \/ calls[c].pc = "awaitInit" /\ Resolved(inv, calls[c].promise) = "true"
               /\ mgr.adapter # 0 /\ calls'[c].adapter = mgr.adapter
               /\ calls'[c].op \in FacadeMethods
               /\ mgr'.opCount = mgr.opCount + 1
       /\ (calls[c].pc \in {"idle", "awaitInit"} /\ calls'[c].pc = "done")
            => (calls'[c].path = "caught" /\ mgr'.opCount = mgr.opCount
                /\ \/ calls[c].pc = "awaitInit" /\ Resolved(inv, calls[c].promise) = "false"
                   \/ mgr.adapter = 0
                   \/ calls'[c].op \notin FacadeMethods)]_vars

\* C26 witness: a call that waited for initialize() has called its adapter method, and a
\* call for a method the adapter lacks has ended, with one operation counted
C26_Witness_CalledAfterInitAndRefused ==
  /\ mgr.opCount = 1
  /\ \E c \in CallIds : calls[c].op \in FacadeMethods /\ calls[c].promise # 0
                        /\ calls[c].pc = "awaitMethod"
  /\ \E c \in CallIds : calls[c].op = "noSuchMethod" /\ calls[c].pc = "done"
                        /\ calls[c].path = "caught"

(***************************************************************************)
(* C27: healthCheck() returns status not_initialized on a manager that is  *)
(* not initialized and no_adapter on an initialized manager without an     *)
(* adapter.  Otherwise its health object has canInjectReply true exactly   *)
(* when the getReplyEditor probe returned an editor, canExtractThread true *)
(* exactly when the extractThread probe returned a non-empty list, and     *)
(* status healthy when the adapter is ready and a probe succeeded, partial *)
(* when it is ready and both failed, unhealthy when it is not ready.       *)
(***************************************************************************)
C27_HealthObject(cr) ==
  /\ Len(cr.seen) = 2
  /\ cr.canInject <=> cr.seen[1] # "null"
  /\ cr.canExtract <=> cr.seen[2] = "value"
  /\ cr.result = "healthy" <=> (cr.ready /\ (cr.canInject \/ cr.canExtract))
  /\ cr.result = "partial" <=> (cr.ready /\ ~cr.canInject /\ ~cr.canExtract)
  /\ cr.result = "unhealthy" <=> ~cr.ready

C27_HealthCheckReports ==
  [][\A c \in CallIds :
       /\ (calls[c].op = "none" /\ calls'[c].op = "healthCheck")
            => /\ ~mgr.initialized
                    => (calls'[c].pc = "done" /\ calls'[c].result = "not_initialized")
               /\ (mgr.initialized /\ mgr.adapter = 0)
                    => (calls'[c].pc = "done" /\ calls'[c].result = "no_adapter")
               /\ (mgr.initialized /\ mgr.adapter # 0) => calls'[c].pc # "done"
       /\ (calls'[c].op = "healthCheck" /\ calls[c].pc \notin {"idle", "done"}
           /\ calls'[c].pc = "done")
            => C27_HealthObject(calls'[c])]_vars

\* C27 witness: a healthCheck() has returned partial: the adapter was ready, the editor
\* probe returned null and the thread probe an empty list
C27_Witness_Partial ==
  \E c \in CallIds : /\ calls[c].op = "healthCheck" /\ calls[c].pc = "done"
                     /\ calls[c].result = "partial" /\ calls[c].seen = <<"null", "[]">>

(***************************************************************************)
(* C28: detectWithRetry waits for the DOM, then calls detectPlatform() at  *)
(* most maxRetries times, 1000 ms apart, returns the first platform found  *)
(* and otherwise returns none right after the last attempt, without a      *)
(* further wait; every call returns.                                       *)
(***************************************************************************)
C28_BoundedAttempts ==
  /\ Len(rt.at) <= rt.n /\ rt.n <= maxRetries
  /\ rt.pc = "waitDom" => rt.at = <<>>
  /\ \A k \in 1..Len(rt.at) : rt.at[k] = (k - 1) * detectDelay
  /\ \A k \in 1..(Len(rt.seen) - 1) : rt.seen[k] = "none"
  /\ rt.pc = "done" =>
       /\ rt.result = IF rt.seen = <<>> THEN "none" ELSE rt.seen[Len(rt.seen)]
       /\ rt.result = "none" => Len(rt.at) = rt.n
       /\ rt.at # <<>> => rt.clock = rt.at[Len(rt.at)]

C28_RetryTerminates ==
  []C28_BoundedAttempts /\ ((rt.pc \in {"waitDom", "attempt", "sleep"}) ~> (rt.pc = "done"))

\* C28 witness: a call with maxRetries = 3 has returned none after attempts at 0, 1000
\* and 2000 ms
C28_Witness_ThreeAttemptsThenNone ==
  /\ rt.pc = "done" /\ rt.n = 3 /\ rt.result = "none"
  /\ rt.at = <<0, 1000, 2000>> /\ rt.clock = 2000

(***************************************************************************)
(* C29: the URL strategy votes helpscout for every URL that holds one of   *)
(* Help Scout's include substrings or matches one of its path patterns,    *)
(* votes freescout only for a URL that matches FreeScout's includes or     *)
(* patterns and holds no Help Scout include substring, and votes none      *)
(* otherwise.                                                              *)
(***************************************************************************)
C29_HsMatch(u) == u.hsNet \/ u.hsCom \/ u.hsPath
C29_FsMatch(u) == (u.fsWord \/ u.fsPath) /\ ~(u.hsNet \/ u.hsCom)

C29_UrlVote ==
  vOut.done =>
    /\ C29_HsMatch(vPage.url) => vOut.url = "helpscout"
    /\ vOut.url = "freescout" => C29_FsMatch(vPage.url)
    /\ (~C29_HsMatch(vPage.url) /\ ~C29_FsMatch(vPage.url)) => vOut.url = "none"

\* C29, supporting: the URL strategy votes helpscout exactly for the URLs that hold
\* helpscout.net, freescout exactly for the URLs that match FreeScout's includes or
\* patterns and neither an include nor a path pattern of Help Scout
C29_UrlVoteNeedsHelpScoutNet ==
  vOut.done =>
    /\ vOut.url = "helpscout" <=> vPage.url.hsNet
    /\ vOut.url = "freescout" <=> ((vPage.url.fsWord \/ vPage.url.fsPath)
                                   /\ ~C29_HsMatch(vPage.url))


(***************************************************************************)
(* C30  the element cache of the adapter                                   *)
(***************************************************************************)
\* C30: a cached querySelector() call returns the stored element without
\* querying the document while the entry is younger than 5 seconds; once the
\* entry is 5 seconds old, or after clearCache(), the next call queries the
\* document again; and a query that found nothing is not stored, so the call
\* after it queries the document again.
C30_CachedQueryUsesFreshEntry ==
  qOut.op = "query" =>
    /\ (qOut.had > 0 /\ qOut.age < cacheTimeout) => qOut.returned = qOut.had
    /\ (qOut.had = 0 \/ qOut.age >= cacheTimeout) => qOut.returned = qOut.current
    /\ qOut.afterClear => qOut.returned = qOut.current
    /\ qOut.afterMiss => qOut.returned = qOut.current

\* C30 witness: a call found an entry that was 5 seconds old and held another
\* element than the page, and returned the element of the page.
C30_Witness_ExpiredEntryRequeried ==
  /\ qOut.op = "query" /\ qOut.had > 0 /\ qOut.age = cacheTimeout
  /\ qOut.had # qOut.current /\ qOut.returned = qOut.current

\* Supporting check for C30: a call does answer from the cache, with an
\* element the page no longer holds, while the entry is younger than 5 s.
C30_Witness_StaleHit ==
  /\ qOut.op = "query" /\ qOut.age < cacheTimeout /\ qOut.had > 0
  /\ qOut.returned = qOut.had /\ qOut.had # qOut.current

(***************************************************************************)
(* C31  debounce by key                                                    *)
(***************************************************************************)
\* C31: for each debounce key at most one timer is pending at any time.
C31_OneTimerPerKey ==
  \A k \in DebounceKeys : Cardinality({t \in ut.timers : t.key = k}) <= 1

\* Supporting check for C31: while every function passed to debounce returns
\* without calling debounce, each key has at most one pending timer, the map
\* holds a key exactly while its timer is pending, and every function that
\* ran was the one of the last call for its key, ran once, delay after that
\* call.
C31_PlainFunctionsDebounce ==
  ~ut.special =>
    /\ C31_OneTimerPerKey
    /\ \A k \in DebounceKeys :
         /\ ut.debounceTimers[k] # 0 <=> \E t \in ut.timers : t.key = k
         /\ \A t \in ut.timers : t.key = k => t.id = ut.debounceTimers[k]
    /\ ~ut.twice
    /\ \A r \in ut.ran : r.latest /\ r.onTime

\* Supporting check for C31: two timers of one key are pending only after a
\* function that called debounce has run.
C31_TwoTimersOnlyAfterRearm ==
  ~C31_OneTimerPerKey => (ut.special /\ ut.ran # {})

(***************************************************************************)
(* C32  PlatformAdapter.cleanup() and the error log                        *)
(***************************************************************************)
\* C32: a function passed to debounce before cleanup() and not yet fired
\* never runs after that cleanup().
C32_NoDebouncedRunAfterCleanup ==
  \A r \in ut.ran : ~r.afterCleanup

\* The error log holds the last min(10, n) errors in order of occurrence, n
\* being the number of errors logged since the last cleanup().
C32_LogIsLastTen ==
  LET n == ut.logged - ut.base
      m == IF n > adapterMaxErrors THEN adapterMaxErrors ELSE n
  IN  ut.errors = [i \in 1..m |-> ut.logged - m + i]

\* Supporting check for C32: cleanup() leaves the element cache and the
\* error log empty and, while no function passed to debounce has called
\* debounce, no timer pending; the error log always holds the 10 most
\* recent errors in order; and no function of a call made before cleanup()
\* runs after it unless a function that called debounce was involved.
C32_CleanupEmptiesAllButRearmed ==
  /\ [][ut'.cleanups # ut.cleanups
          => (~ut'.cache /\ ut'.errors = <<>> /\ (~ut.special => ut'.timers = {}))]_vars
  /\ [](C32_LogIsLastTen /\ (~ut.special => C32_NoDebouncedRunAfterCleanup))

(***************************************************************************)
(* C33  the Help Scout readiness wait                                      *)
(***************************************************************************)
\* A poll of a waiting initialize run that left every run waiting.
C33_PolledInVain ==
  /\ ad'.initializationAttempts = ad.initializationAttempts + 1
  /\ ad'.wait = ad.wait

\* C33: the readiness wait of each initialize run of a Help Scout adapter
\* always resolves: a poll that sees an indicator of the app resolves it, a
\* poll leaves its run waiting only if it is not yet poll maxInitAttempts,
\* the wait is resolved at once when an indicator is there at the first
\* poll, and every run that waits for a poll is resolved later on.
C33_WaitAlwaysResolves ==
  /\ [](\A i \in InitRuns :
          /\ ad.initializationAttempts <= maxInitAttempts + Cardinality(InitRuns) - 1
          /\ ad.kind = "helpscout" => ad.wait[i] # "idle")
  /\ [][/\ C33_PolledInVain
             => (~appDetected(host) /\ ad'.initializationAttempts < maxInitAttempts)
        /\ (ad.kind = "none" /\ ad'.kind = "helpscout" /\ appDetected(host))
             => \A i \in InitRuns : ad'.wait[i] = "done"]_vars
  /\ \A i \in InitRuns : (ad.wait[i] = "timer") ~> (ad.wait[i] = "done")

\* C33 witness: a wait was resolved by the tenth poll on a page that shows
\* no indicator of the app.
C33_Witness_ResolvedWithoutSignal ==
  /\ ad.kind = "helpscout" /\ ~appDetected(host)
  /\ \A i \in InitRuns : ad.wait[i] = "done"
  /\ ad.initializationAttempts >= maxInitAttempts

(***************************************************************************)
(* C34  the mutation observer of the Help Scout adapter                    *)
(***************************************************************************)
\* A batch of mutation records is delivered to the connected observer of a
\* Help Scout adapter.
C34_BatchDelivered ==
  ob'.batches = ob.batches + 1 /\ ad.kind = "helpscout" /\ host.observers # {}

RECURSIVE C35_Expected(_, _)
C35_Expected(threads, i) ==
  IF i > Len(threads) THEN <<>>
  ELSE LET t == threads[i]
           shown == t.type # "note" /\ t.state \notin {"draft", "deleted"} /\ t.body # <<>>
           role == IF t.createdByType = "customer" THEN "user" ELSE "assistant"
       IN  (IF shown THEN <<[role |-> role, body |-> t.body]>> ELSE <<>>)
             \o C35_Expected(threads, i + 1)

\* C35: on a conversation with a non-empty threads array the call returns,
\* in array order, one message for every record that is no note, draft or
\* deleted and has a non-empty body, with role user iff the author type of
\* the record is customer.
C35_OneMessagePerShownRecord ==
  ax.done =>
    LET expected == C35_Expected(ax.conversation.threads, 1)
    IN  /\ ~ax.threw
        /\ Len(ax.messages) = Len(expected)
        /\ \A i \in 1..Len(expected) : ax.messages[i].role = expected[i].role

\* Supporting check for C35: what the call does.  It throws when the
\* conversation has no thread property, and otherwise returns what the one
\* record of conversation.thread gives, whatever conversation.threads holds.
C35_ReadsThreadNotThreads ==
  ax.done =>
    /\ ax.threw <=> ax.conversation.thread = <<>>
    /\ ~ax.threw => ax.messages = messagesOfThread(ax.conversation.thread[1])

(***************************************************************************)
(* C36  a failed initialization is sticky until reset()                    *)
(***************************************************************************)
\* An initialize() made since the last reset(), or that reset() itself, has
\* resolved false.
C36_ResolvedFalse ==
  \E c \in CallIds : /\ calls[c].op \in {"initialize", "reset"} /\ calls[c].pc = "done"
                     /\ calls[c].result = "false" /\ calls[c].epoch = hist.resets

\* No _performInitialization starts in the step, an initialize() call that
\* ends in it gets false and a facade operation that ends in it gets its
\* default from the catch block.
C36_StaysFailed ==
  /\ nInv' = nInv
  /\ \A c \in CallIds :
       (calls[c].pc # "done" /\ calls'[c].pc = "done") =>
          /\ calls'[c].op = "initialize" => calls'[c].result = "false"
          /\ calls'[c].op \in DispatcherMethods => calls'[c].path = "caught"

\* C36: after initialize() has resolved false, and until reset() is called,
\* no detection or adapter loading is run again, every initialize() call
\* gets false and every facade operation its safe default.
C36_FailureIsSticky ==
  [][(C36_ResolvedFalse /\ hist'.resets = hist.resets) => C36_StaysFailed]_vars

\* Supporting check for C36: the statement holds in runs in which reset() is
\* never called, so that no attempt was superseded while it was running.
C36_StickyWithoutReset ==
  [][(C36_ResolvedFalse /\ hist'.resets = 0) => C36_StaysFailed]_vars

(***************************************************************************)
(* C37  initialized implies an adapter and its platform                    *)
(***************************************************************************)
\* C37: in every reachable state of the manager, initialized is true only
\* while adapter is not null and platform is the platform that adapter was
\* built for.
C37_ReadyImpliesAdapterAndPlatform ==
  mgr.initialized => (mgr.adapter # 0 /\ mgr.platform = hist.kind[mgr.adapter])

\* Supporting check for C37: the statement holds in runs in which reset() is
\* never called.
C37_ReadyImpliesAdapterWithoutReset ==
  (mgr.initialized /\ hist.resets = 0)
    => (mgr.adapter # 0 /\ mgr.platform = hist.kind[mgr.adapter])

(***************************************************************************)
(* C38  reset() while an initialize() attempt is running                   *)
(***************************************************************************)
\* C38: an attempt that was running when reset() was called does not install
\* an adapter and does not set initialized afterwards.
C38_SupersededAttemptInstallsNothing ==
  [][\A i \in hist.superseded :
       inv'[i] # inv[i] => /\ mgr'.adapter \in {mgr.adapter, 0}
                           /\ mgr'.initialized => mgr.initialized]_vars

\* Supporting check for C38: while no reset() was called during a running
\* attempt, initialized is true only with an adapter and its platform.
C38_ConsistentWithoutSupersededAttempt ==
  (mgr.initialized /\ hist.superseded = {})
    => (mgr.adapter # 0 /\ mgr.platform = hist.kind[mgr.adapter])


\* ---- an unknown result is not cached (SpecDetect)
\* C39: a detectPlatform() call that follows a call which returned no platform
\* runs the strategies, whatever time has passed, and returns what they give on
\* the page as it is at this call.
C39_UnknownIsNeverServedFromCache ==
  [][(dLog.calls >= 1 /\ dLog.value = "none" /\ dLog'.calls = dLog.calls + 1)
       => (dLog'.ran /\ dLog'.value = dLog'.onPage)]_vars

\* A call returned no platform and the next call, made in the same minute,
\* returned the platform whose markers had appeared in between.
C39_Witness_PlatformSeenOnNextCall ==
  /\ dLog.calls >= 2 /\ dLog.ran /\ Truthy(dLog.value)
  /\ dSince.runValue = "none" /\ dSince.runAt = dLog.at /\ ~dSince.runCleared


\* ---- one initialization per Help Scout adapter (SpecClick)
\* C40 (as claimed): for a Help Scout adapter, the observer setup and the
\* listener registration have run at most once, at most one of its mutation
\* observers is connected, and one click of the user on the Reply button, with
\* no click made by the adapter itself, has led to at most one editorReady.
C40_InitializedOnceOneEventPerClick ==
  ad.kind = "helpscout" =>
    /\ ad.nObservers <= 1 /\ host.listeners <= 2
    /\ Cardinality({i \in InitRuns : ad.wait[i] # "idle"}) <= 1
    /\ Cardinality(host.observers) <= 1
    /\ (ob.reclicks = 0 => ob.clickEmits <= 1)

\* What holds of the claim: at most one mutation observer of the adapter is
\* connected at any time, and an initialize() run registers listeners only
\* together with an observer setup.
C40_AtMostOneObserverConnected ==
  ad.kind = "helpscout" =>
    /\ Cardinality(host.observers) <= 1
    /\ host.listeners = 2 * ad.nObservers
    /\ ad.nObservers = Cardinality({i \in InitRuns : ad.wait[i] = "done"})

====
